---- MODULE Spec2Model ----
(***************************************************************************)
(* Policy evaluation and proof engine of the AI Gmail automation system.   *)
(*                                                                         *)
(* The module models IntegratedAIZkVMSystem (integrated-ai-zkvm.ts), the   *)
(* ZkVMPolicyEngine (zkvm-policy-engine.ts), the ZKPVerifier               *)
(* (zkp-verifier.ts), the PaymentPolicyEvaluator and the two               *)
(* EmailProcessor classes that gate payments and calendar bookings.        *)
(*                                                                         *)
(* One object is exercised per behaviour (variable sut); an operation is   *)
(* a sequence of steps, one per await / branch of the TypeScript code.     *)
(* Timestamps are Unix seconds; Date#getHours and Date#getDay are taken    *)
(* in a process whose local time zone is UTC.                              *)
(***************************************************************************)
EXTENDS Integers, Sequences, FiniteSets, TLC

VARIABLES
  sut,            \* which object the program constructed and drives
  policy,         \* DynamicPolicy.rules held by the caller (edited in place)
  policyEdits,    \* number of edit operations applied to policy
  zkVMExists,     \* fs.existsSync(zkVMPath / hostBinaryPath)
  enableProofGeneration, \* ZkVMPolicyEngine config.enableProofGeneration
  spending,       \* currentSpending and weeklySpending passed to the engine
  pc,             \* position inside the evaluation entry point
  intent,         \* PaymentIntent of the evaluation in progress
  preEvaluation,  \* evaluateWithZkVM: const preEvaluation
  execOutcome,    \* what the external proof process did
  zkVMResult,     \* result parsed from the proof process
  evaluation,     \* the Decision returned by the entry point
  trace,          \* steps taken by the evaluation call in progress
  verificationKeyExists, \* fs.existsSync(verificationKeyPath)
  verifyPc,       \* position inside ZKPVerifier.verifyProof
  zkpProof,       \* the ZKPProof artifact passed to verifyProof
  workerOutcome,  \* what the verification worker process did
  verifyResult,   \* the boolean verifyProof returned
  config,         \* ProcessingConfig of the EmailProcessor
  procPc,         \* position inside the processing of one message
  message,        \* what the AI analysis extracted from the message
  policyResult,   \* processInvoiceEmail: const policyResult
  payments,       \* calls of the payment executor made for the message
  calendarEvents, \* calendar events created for the message
  result,         \* the ProcessingResult of the message
  planPc,         \* position inside the check of one PaymentPlan
  paymentPlan,    \* the PaymentPlan being checked
  compliance,     \* what the check of the PaymentPlan answered
  payPc,          \* position inside RealPaymentExecutor.executePayment
  request,        \* the PaymentRequest being executed
  paymentResult,  \* the PaymentResult of the request
  transactions,   \* transactions the call in progress sent to the chain
  processingQueue, \* the run stored in processingQueue for the message id
  runs,           \* the runs of doProcessSingleEmail started for the message
  cleanupTimers,  \* pending timers that delete the queue entry
  lastCall        \* the latest call of an entry point and the run it awaits

vars == <<sut, policy, policyEdits, zkVMExists, enableProofGeneration, spending,
          pc, intent, preEvaluation, execOutcome, zkVMResult, evaluation, trace,
          verificationKeyExists, verifyPc, zkpProof, workerOutcome, verifyResult,
          config, procPc, message, policyResult, payments, calendarEvents, result,
          planPc, paymentPlan, compliance,
          payPc, request, paymentResult, transactions,
          processingQueue, runs, cleanupTimers, lastCall>>

envVars == <<sut, zkVMExists, enableProofGeneration, verificationKeyExists, config>>

procVars == <<procPc, message, policyResult, payments, calendarEvents, result>>

planVars == <<planPc, paymentPlan, compliance>>

payVars == <<payPc, request, paymentResult, transactions>>

queueVars == <<processingQueue, runs, cleanupTimers, lastCall>>

verifierVars == <<verifyPc, zkpProof, workerOutcome, verifyResult>>

evalVars == <<pc, intent, preEvaluation, execOutcome, zkVMResult, evaluation, trace>>

(***************************************************************************)
(* Bounds of the model.                                                    *)
(***************************************************************************)
MaxStdoutLines == 2
MaxPolicyEdits == 1

None == [none |-> TRUE]

(***************************************************************************)
(* JavaScript helpers.                                                     *)
(***************************************************************************)
Includes(seq, x) == \E i \in 1..Len(seq) : seq[i] = x

MathMin(a, b) == IF a < b THEN a ELSE b

MathMax(a, b) == IF a > b THEN a ELSE b

getHours(timestamp) == (timestamp \div 3600) % 24

getDay(timestamp) == ((timestamp \div 86400) + 4) % 7

(***************************************************************************)
(* Inputs.                                                                 *)
(***************************************************************************)
Vendors == {"Acme", "suspicious-vendor.com", "Unknown Vendor"}

Categories == {"software", "other"}

Amounts == {50000, 100001, 200001}

\* Tuesday 1970-01-06 10:00 and Saturday 1970-01-03 22:00
Timestamps == {468000, 252000}

\* an intent whose amount is exactly the per-payment limit of the default
\* policies, on Tuesday 10:00
AtLimit == 100000

Intents ==
  [amount : Amounts, vendor : Vendors, category : Categories, timestamp : Timestamps]
    \cup {[amount |-> AtLimit, vendor |-> "Acme", category |-> "other",
            timestamp |-> 468000]}

\* conditions a caller passes to addConditionalRule; the last one is the
\* condition FullIntegrationDemo adds
ConditionInputs ==
  {"amount > 100000", "vendor not in allowedVendors", "amount > 150000"}

RuleActions == {"approve", "reject", "require_approval"}

(***************************************************************************)
(* IntegratedAIZkVMSystem: policy construction and editing.                *)
(***************************************************************************)
CondRule(condition, action) == [condition |-> condition, action |-> action]

\* customRules is a mapping category -> rule; a rule's maxAmount of 0 stands
\* for an absent (falsy) maxAmount
CategoryRule(maxAmount, requireApproval) ==
  [maxAmount |-> maxAmount, requireApproval |-> requireApproval]

DefaultCustomRules ==
  [c \in {"utilities", "software", "consulting"} |->
     CASE c = "utilities" -> CategoryRule(50000, FALSE)
       [] c = "software" -> CategoryRule(200000, TRUE)
       [] c = "consulting" -> CategoryRule(500000, TRUE)]

\* { ...defaults, ...customRules }: keys of customRules win
SpreadRules(defaults, customRules) ==
  [c \in (DOMAIN defaults) \cup (DOMAIN customRules) |->
     IF c \in DOMAIN customRules THEN customRules[c] ELSE defaults[c]]

createDynamicPolicy(customRules) ==
  [maxPerPayment |-> 100000,
   maxPerDay |-> 500000,
   maxPerWeek |-> 2000000,
   allowedHoursStart |-> 9,
   allowedHoursEnd |-> 18,
   allowedWeekdays |-> <<1, 2, 3, 4, 5>>,
   allowedVendors |-> <<>>,
   blockedVendors |-> <<"suspicious-vendor.com">>,
   customRules |-> SpreadRules(DefaultCustomRules, customRules),
   conditionalRules |-> <<CondRule("amount > 200000", "require_approval"),
                          CondRule("vendor not in allowedVendors", "require_approval")>>]

EmptyRules == [c \in {} |-> CategoryRule(0, FALSE)]

\* a DynamicPolicy literal written by the caller (the interface is exported):
\* the default limits with the caller's vendor lists and conditional rules
CallerPolicy(allowedVendors, blockedVendors, conditionalRules) ==
  [createDynamicPolicy(EmptyRules) EXCEPT
     !.allowedVendors = allowedVendors,
     !.blockedVendors = blockedVendors,
     !.conditionalRules = conditionalRules]

InitialPolicies ==
  {createDynamicPolicy(EmptyRules),
   CallerPolicy(<<"Acme">>, <<"suspicious-vendor.com">>, <<>>),
   CallerPolicy(<<"Acme", "suspicious-vendor.com">>, <<"suspicious-vendor.com">>, <<>>)}

\* policy.rules.conditionalRules.push({condition, action, parameters})
addConditionalRule(p, condition, action) ==
  [p EXCEPT !.conditionalRules = Append(@, CondRule(condition, action))]

\* policy.rules.customRules[category] = rule
addCustomRule(p, category, rule) ==
  [p EXCEPT !.customRules = SpreadRules(@, [c \in {category} |-> rule])]

(***************************************************************************)
(* IntegratedAIZkVMSystem: the manual evaluator.                           *)
(***************************************************************************)
\* the whitelist of conditions: a condition outside it has no evaluator
SafeConditions ==
  {"amount > 200000", "amount > 100000", "amount > 50000",
   "vendor not in allowedVendors", "hour < 9 or hour >= 18",
   "weekday in [0, 6]", "category == \"high-risk\""}

safeEvaluateCondition(condition, ctx) ==
  CASE condition = "amount > 200000" -> ctx.amount > 200000
    [] condition = "amount > 100000" -> ctx.amount > 100000
    [] condition = "amount > 50000" -> ctx.amount > 50000
    [] condition = "vendor not in allowedVendors" ->
         ~Includes(ctx.allowedVendors, ctx.vendor)
    [] condition = "hour < 9 or hour >= 18" -> ctx.hour < 9 \/ ctx.hour >= 18
    [] condition = "weekday in [0, 6]" -> ctx.weekday \in {0, 6}
    [] condition = "category == \"high-risk\"" -> ctx.category = "high-risk"
    [] OTHER -> FALSE

evaluateCondition(condition, i, p) ==
  safeEvaluateCondition(condition,
    [amount |-> i.amount,
     vendor |-> i.vendor,
     category |-> i.category,
     hour |-> getHours(i.timestamp),
     weekday |-> getDay(i.timestamp),
     allowedVendors |-> p.allowedVendors,
     maxPerPayment |-> p.maxPerPayment])

Violation(kind, detail) == [kind |-> kind, detail |-> detail]

\* fault variant: riskScore = risk instead of riskScore += risk
PushOverwritingRisk(acc, kind, detail, risk) ==
  [acc EXCEPT !.violations = Append(@, Violation(kind, detail)),
              !.riskScore = risk]

\* violations.push(...); riskScore += risk
Push(acc, kind, detail, risk) ==
  [acc EXCEPT !.violations = Append(@, Violation(kind, detail)),
              !.riskScore = @ + risk]

Applied(acc, rule) == [acc EXCEPT !.appliedRules = Append(@, rule)]

\* the loop over policy.rules.conditionalRules, from rule k on
RECURSIVE ConditionalLoop(_, _, _, _)
ConditionalLoop(acc, k, i, p) ==
  IF k > Len(p.conditionalRules) THEN acc
  ELSE LET rule == p.conditionalRules[k]
           met == evaluateCondition(rule.condition, i, p)
           a1 == IF met THEN Applied(acc, rule.condition) ELSE acc
           a2 == IF met /\ rule.action = "reject"
                   THEN Push(a1, "conditional_reject", rule.condition, 30)
                 ELSE IF met /\ rule.action = "require_approval"
                   THEN Push(a1, "conditional_require_approval", rule.condition, 10)
                 ELSE a1
       IN ConditionalLoop(a2, k + 1, i, p)

\* fault variant: an amount equal to the limit already violates it
AmountLimitCheckInclusive(acc, i, p) ==
  Applied(IF i.amount >= p.maxPerPayment
            THEN Push(acc, "amount_limit", "", 30) ELSE acc,
          "basic amount limit")

\* if (intent.amount > policy.rules.maxPerPayment)
AmountLimitCheck(acc, i, p) ==
  Applied(IF i.amount > p.maxPerPayment
            THEN Push(acc, "amount_limit", "", 30) ELSE acc,
          "basic amount limit")

\* if (allowedVendors.length > 0 && !allowedVendors.includes(intent.vendor))
AllowedVendorCheck(acc, i, p) ==
  IF Len(p.allowedVendors) > 0 /\ ~Includes(p.allowedVendors, i.vendor)
    THEN Push(acc, "vendor_not_allowed", i.vendor, 25) ELSE acc

\* fault variant: the block list is not consulted
BlockedVendorCheckSkipped(acc, i, p) == Applied(acc, "vendor lists")

\* if (blockedVendors.includes(intent.vendor))
BlockedVendorCheck(acc, i, p) ==
  Applied(IF Includes(p.blockedVendors, i.vendor)
            THEN Push(acc, "vendor_blocked", i.vendor, 50) ELSE acc,
          "vendor lists")

\* if (hour < allowedHoursStart || hour >= allowedHoursEnd)
BusinessHoursCheck(acc, i, p) ==
  LET hour == getHours(i.timestamp)
  IN Applied(IF hour < p.allowedHoursStart \/ hour >= p.allowedHoursEnd
               THEN Push(acc, "outside_hours", "", 15) ELSE acc,
             "business hours")

\* const categoryRule = policy.rules.customRules[intent.category]
CategoryRuleCheck(acc, i, p) ==
  IF i.category \in DOMAIN p.customRules
    THEN LET categoryRule == p.customRules[i.category]
         IN Applied(IF categoryRule.maxAmount # 0 /\ i.amount > categoryRule.maxAmount
                      THEN Push(acc, "category_limit", i.category, 20) ELSE acc,
                    i.category)
  ELSE acc

evaluateCustomRules(i, p) ==
  LET a0 == [violations |-> <<>>, appliedRules |-> <<>>, riskScore |-> 0]
      a1 == AmountLimitCheck(a0, i, p)
      a2 == AllowedVendorCheck(a1, i, p)
      a3 == BlockedVendorCheck(a2, i, p)
      a4 == BusinessHoursCheck(a3, i, p)
      a5 == CategoryRuleCheck(a4, i, p)
      a6 == ConditionalLoop(a5, 1, i, p)
  IN [approved |-> Len(a6.violations) = 0,
      riskScore |-> MathMin(a6.riskScore, 100),
      violationCount |-> Len(a6.violations),
      violations |-> a6.violations,
      appliedRules |-> a6.appliedRules]

(***************************************************************************)
(* The external proof process.  Its stdout is a sequence of lines; a line  *)
(* is one of the texts the adapters look for, or noise.                    *)
(***************************************************************************)
Line(tag, n) == [tag |-> tag, n |-> n]

StdoutLines ==
  {Line("Approved: true", 0), Line("Approved: false", 0),
   Line("Risk Score:", 40), Line("Risk Score:", 250),
   Line("Violations:", 2), Line("noise", 0)}

RECURSIVE SeqsUpTo(_, _)
SeqsUpTo(S, n) ==
  IF n = 0 THEN {<<>>}
  ELSE LET shorter == SeqsUpTo(S, n - 1)
       IN shorter \cup {Append(q, x) : q \in shorter, x \in S}

Stdouts == SeqsUpTo(StdoutLines, MaxStdoutLines)

\* fault variant: execAsync is called without a timeout
ExecFailuresWithoutTimeout == {"nonzero_exit", "process_error"}

\* execAsync rejects: the timeout killed the process, it exited non-zero,
\* or it could not be run
ExecFailures == {"timeout", "nonzero_exit", "process_error"}

Exited(stdout) == [kind |-> "exited", stdout |-> stdout]

Failed(kind) == [kind |-> kind, stdout |-> <<>>]

\* stdout.match(/<tag> (\d+)/): the number of the first line with the tag
FirstMatch(stdout, tag) ==
  IF \E k \in 1..Len(stdout) : stdout[k].tag = tag
    THEN stdout[CHOOSE k \in 1..Len(stdout) :
                  /\ stdout[k].tag = tag
                  /\ \A j \in 1..(k - 1) : stdout[j].tag # tag].n
  ELSE 0

\* the loop over the lines: the number of the last line with the tag
LastMatch(stdout, tag) ==
  IF \E k \in 1..Len(stdout) : stdout[k].tag = tag
    THEN stdout[CHOOSE k \in 1..Len(stdout) :
                  /\ stdout[k].tag = tag
                  /\ \A j \in (k + 1)..Len(stdout) : stdout[j].tag # tag].n
  ELSE 0

\* IntegratedAIZkVMSystem.executeZkVMWithParams, after execAsync resolved
executeZkVMWithParams(stdout) ==
  [approved |-> ~(\E k \in 1..Len(stdout) : stdout[k].tag = "Approved: false"),
   riskScore |-> FirstMatch(stdout, "Risk Score:"),
   violationCount |-> FirstMatch(stdout, "Violations:"),
   zkpReceipt |-> stdout]

\* ZkVMPolicyEngine.executeZkVMHost, after execAsync resolved
executeZkVMHost(stdout) ==
  [approved |-> \E k \in 1..Len(stdout) : stdout[k].tag = "Approved: true",
   riskScore |-> LastMatch(stdout, "Risk Score:"),
   violationCount |-> LastMatch(stdout, "Violations:")]

\* zkVMResult.violations is never set by executeZkVMWithParams: || []
combineResults(pre, zk) ==
  [approved |-> pre.approved /\ zk.approved,
   riskScore |-> MathMax(pre.riskScore, zk.riskScore),
   violationCount |-> Len(pre.violations),
   violations |-> pre.violations,
   appliedRules |-> Append(pre.appliedRules, "zkVM proof")]

\* { ...decision, proofGenerated }
WithProof(decision, proofGenerated) ==
  [f \in (DOMAIN decision) \cup {"proofGenerated"} |->
     IF f = "proofGenerated" THEN proofGenerated ELSE decision[f]]

(***************************************************************************)
(* ZkVMPolicyEngine: policies and the manual evaluator.                    *)
(***************************************************************************)
getDefaultPolicy ==
  [maxPerPayment |-> 100000,
   maxPerDay |-> 500000,
   maxPerWeek |-> 2000000,
   allowedVendors |-> <<>>,
   allowedHoursStart |-> 9,
   allowedHoursEnd |-> 18,
   allowedWeekdays |-> <<1, 2, 3, 4, 5>>]

EnginePolicies ==
  {getDefaultPolicy,
   [getDefaultPolicy EXCEPT !.allowedVendors = <<"Acme">>],
   [getDefaultPolicy EXCEPT !.allowedVendors = <<"Acme">>,
                            !.allowedWeekdays = <<1, 2, 3, 4, 5, 7>>]}

(***************************************************************************)
(* The weekday bitmask handed to the proof process.  A mask is a number;   *)
(* x | (1 << day) sets bit day of it.                                      *)
(***************************************************************************)
BitSet(mask, k) == (mask \div (2 ^ k)) % 2 = 1

\* 1 << day: the shift count is taken modulo 32
ShiftLeftOne(day) == 2 ^ (day % 32)

\* mask | (1 << day)
OrShifted(mask, day) ==
  IF BitSet(mask, day % 32) THEN mask ELSE mask + ShiftLeftOne(day)

\* IntegratedAIZkVMSystem.createWeekdayMask, from element k of the list on
RECURSIVE createWeekdayMaskFrom(_, _, _)
createWeekdayMaskFrom(mask, k, weekdays) ==
  IF k > Len(weekdays) THEN mask
  ELSE createWeekdayMaskFrom(
         IF weekdays[k] >= 0 /\ weekdays[k] <= 6
           THEN OrShifted(mask, weekdays[k]) ELSE mask,
         k + 1, weekdays)

createWeekdayMask(weekdays) == createWeekdayMaskFrom(0, 1, weekdays)

\* ZkVMPolicyEngine.prepareInputData: the loop that builds weekdayMask
RECURSIVE weekdayMaskFrom(_, _, _)
weekdayMaskFrom(mask, k, allowedWeekdays) ==
  IF k > Len(allowedWeekdays) THEN mask
  ELSE weekdayMaskFrom(
         IF allowedWeekdays[k] < 8
           THEN OrShifted(mask, allowedWeekdays[k]) ELSE mask,
         k + 1, allowedWeekdays)

weekdayMask(allowedWeekdays) == weekdayMaskFrom(0, 1, allowedWeekdays)

EngineIntents ==
  [amount : Amounts, vendor : Vendors, timestamp : Timestamps]
    \cup {[amount |-> AtLimit, vendor |-> "Acme", timestamp |-> 468000]}

Spendings ==
  {[currentSpending |-> 0, weeklySpending |-> 0],
   [currentSpending |-> 450000, weeklySpending |-> 1960000]}

evaluateManually(i, p, currentSpending, weeklySpending) ==
  LET c1 == IF i.amount > p.maxPerPayment THEN 1 ELSE 0
      c2 == IF currentSpending + i.amount > p.maxPerDay THEN 1 ELSE 0
      c3 == IF weeklySpending + i.amount > p.maxPerWeek THEN 1 ELSE 0
      c4 == IF ~Includes(p.allowedVendors, i.vendor) THEN 1 ELSE 0
      hour == getHours(i.timestamp)
      c5 == IF hour < p.allowedHoursStart \/ hour >= p.allowedHoursEnd THEN 1 ELSE 0
      c6 == IF ~Includes(p.allowedWeekdays, getDay(i.timestamp)) THEN 1 ELSE 0
      violationCount == c1 + c2 + c3 + c4 + c5 + c6
      riskScore == c1 * 30 + c2 * 25 + c3 * 20 + c4 * 25 + c5 * 15 + c6 * 10
  IN [approved |-> violationCount = 0,
      riskScore |-> MathMin(riskScore, 100),
      violationCount |-> violationCount]

(***************************************************************************)
(* PaymentPolicyEvaluator (page.tsx).  A vendor e-mail address is          *)
(* local@name.tld in lower case; split('@')[1] is its domain name.tld.     *)
(* Violations are kept by kind; the recommendations are texts only.        *)
(***************************************************************************)
Email(local, name, tld) == [local |-> local, name |-> name, tld |-> tld]

DomainName(name, tld) == [name |-> name, tld |-> tld]

\* vendorEmail.split('@')[1]?.toLowerCase()
DomainOf(vendorEmail) == DomainName(vendorEmail.name, vendorEmail.tld)

VendorEmails ==
  {Email("billing", "gmail", "com"),
   Email("noreply", "shady", "tk"),
   Email("accounts", "suspicious-vendor", "com")}

InvoiceDatas ==
  [amount : Amounts, vendorEmail : VendorEmails, vendorName : {"Acme"}]
    \cup {[amount |-> AtLimit, vendorEmail |-> Email("billing", "gmail", "com"),
            vendorName |-> "Acme"]}

getDefaultPaymentPolicy ==
  [maxPerPayment |-> 100000,
   maxPerDay |-> 500000,
   maxPerWeek |-> 2000000,
   maxPerMonth |-> 5000000,
   allowedHours |-> [start |-> 9, end |-> 18],
   allowedWeekdays |-> <<1, 2, 3, 4, 5>>,
   trustedDomains |-> <<DomainName("gmail", "com"), DomainName("outlook", "com"),
                        DomainName("yahoo", "com"), DomainName("company.co", "jp"),
                        DomainName("corp", "com")>>,
   trustedVendors |-> <<>>,
   blockedVendors |-> <<>>,
   requireManualApproval |-> [amountThreshold |-> 200000,
                              unknownVendor |-> TRUE,
                              outsideBusinessHours |-> TRUE],
   retryPolicy |-> [maxRetries |-> 3, retryDelay |-> 30]]

\* config.paymentPolicy: the default, and policies of a caller that does not
\* hold back first payments and that blocks a vendor domain
PaymentPolicies ==
  {getDefaultPaymentPolicy,
   [getDefaultPaymentPolicy EXCEPT !.requireManualApproval.unknownVendor = FALSE],
   [getDefaultPaymentPolicy EXCEPT !.requireManualApproval.unknownVendor = FALSE,
                                   !.blockedVendors = <<DomainName("suspicious-vendor", "com")>>]}

\* the mock implementation returns no spending
getCurrentSpending == [dailySpent |-> 0, weeklySpent |-> 0, monthlySpent |-> 0]

\* the mock implementation returns no history
getPaymentHistory(vendorEmail) == <<>>

\* the mock implementation verifies nobody
checkEASVerification(vendorEmail) == FALSE

Check(violations, riskScore) ==
  [passed |-> Len(violations) = 0, violations |-> violations, riskScore |-> riskScore]

When(cond, kind) == IF cond THEN <<kind>> ELSE <<>>

Risk(cond, points) == IF cond THEN points ELSE 0

checkAmountLimits(p, invoice, currentSpending) ==
  LET perPayment == invoice.amount > p.maxPerPayment
      daily == currentSpending.dailySpent + invoice.amount > p.maxPerDay
      weekly == currentSpending.weeklySpent + invoice.amount > p.maxPerWeek
      monthly == currentSpending.monthlySpent + invoice.amount > p.maxPerMonth
  IN Check(When(perPayment, "per_payment_limit") \o When(daily, "daily_limit")
             \o When(weekly, "weekly_limit") \o When(monthly, "monthly_limit"),
           Risk(perPayment, 30) + Risk(daily, 25) + Risk(weekly, 20) + Risk(monthly, 20))

checkTimeRestrictions(p, currentTime) ==
  LET hour == getHours(currentTime)
      weekday == getDay(currentTime)
      outside == hour < p.allowedHours.start \/ hour >= p.allowedHours.end
      badDay == ~Includes(p.allowedWeekdays, weekday)
  IN Check(When(outside, "outside_allowed_hours") \o When(badDay, "non_allowed_weekday"),
           Risk(outside, 15) + Risk(badDay, 10))

\* email.includes('noreply') || email.includes('no-reply'), for addresses
\* whose domain holds neither text
calculateBaseTrustScore(domain, email) ==
  LET famous == <<DomainName("gmail", "com"), DomainName("outlook", "com"),
                  DomainName("yahoo", "com"), DomainName("company", "com")>>
      score == 50
               + Risk(Includes(famous, domain), 20)
               + (IF domain.tld \in {"com", "org", "jp"} THEN 10
                  ELSE IF domain.tld \in {"tk", "ml"} THEN -20 ELSE 0)
               + Risk(email.local \in {"noreply", "no-reply"}, 5)
  IN MathMax(0, MathMin(100, score))

\* a blocked entry is a domain: an address or a domain includes it exactly
\* when it is the domain.  The five-minute cache holds what this computes.
getVendorTrustInfo(p, vendorEmail) ==
  LET domain == DomainOf(vendorEmail)
  IN [domain |-> domain,
      trustScore |-> calculateBaseTrustScore(domain, vendorEmail),
      paymentHistory |-> getPaymentHistory(vendorEmail),
      easVerified |-> checkEASVerification(vendorEmail),
      whitelisted |-> Includes(p.trustedDomains, domain),
      blacklisted |-> \E k \in 1..Len(p.blockedVendors) : p.blockedVendors[k] = domain]

\* paymentHistory.slice(-5).filter(p => !p.success).length
RecentFailures(paymentHistory) ==
  Cardinality({k \in 1..Len(paymentHistory) :
                 k > Len(paymentHistory) - 5 /\ ~paymentHistory[k].success})

checkVendorTrust(p, invoice) ==
  LET trustInfo == getVendorTrustInfo(p, invoice.vendorEmail)
      blocked == trustInfo.blacklisted \/ Includes(p.blockedVendors, trustInfo.domain)
      unlisted == ~trustInfo.whitelisted /\ ~Includes(p.trustedVendors, invoice.vendorName)
      lowTrust == trustInfo.trustScore < 50
      moderateTrust == ~lowTrust /\ trustInfo.trustScore < 70
      noHistory == Len(trustInfo.paymentHistory) = 0
      failures == ~noHistory /\ RecentFailures(trustInfo.paymentHistory) > 2
      violations == When(blocked, "blacklisted") \o When(lowTrust, "low_trust_score")
                      \o When(failures, "recent_failures")
      riskScore == Risk(blocked, 50) + Risk(unlisted, 20) + Risk(lowTrust, 25)
                     + Risk(moderateTrust, 10) + Risk(~trustInfo.easVerified, 15)
                     + Risk(noHistory, 10) + Risk(failures, 20)
  IN [passed |-> Len(violations) = 0, violations |-> violations,
      riskScore |-> riskScore, trustInfo |-> trustInfo]

checkManualApprovalRequired(p, invoice, trustInfo, timeRestrictionsPassed) ==
  IF invoice.amount >= p.requireManualApproval.amountThreshold THEN TRUE
  ELSE IF p.requireManualApproval.unknownVendor /\ Len(trustInfo.paymentHistory) = 0 THEN TRUE
  ELSE IF p.requireManualApproval.outsideBusinessHours /\ ~timeRestrictionsPassed THEN TRUE
  ELSE FALSE

\* fault variant: the final decision looks at the violations only
FinalDecisionByViolations(violations, requiresManualApproval) ==
  Len(violations) = 0

\* const approved = violations.length === 0 && !requiresManualApproval
FinalDecision(violations, requiresManualApproval) ==
  Len(violations) = 0 /\ ~requiresManualApproval

evaluatePayment(p, invoice, currentSpending, currentTime) ==
  LET amountCheck == checkAmountLimits(p, invoice, currentSpending)
      timeCheck == checkTimeRestrictions(p, currentTime)
      vendorCheck == checkVendorTrust(p, invoice)
      violations == amountCheck.violations \o timeCheck.violations \o vendorCheck.violations
      riskScore == Risk(~amountCheck.passed, amountCheck.riskScore)
                     + Risk(~timeCheck.passed, timeCheck.riskScore)
                     + Risk(~vendorCheck.passed, vendorCheck.riskScore)
      requiresManualApproval ==
        checkManualApprovalRequired(p, invoice, vendorCheck.trustInfo, timeCheck.passed)
  IN [approved |-> FinalDecision(violations, requiresManualApproval),
      requiresManualApproval |-> requiresManualApproval,
      riskScore |-> MathMin(riskScore, 100),
      violations |-> violations]

(***************************************************************************)
(* What the processors read from a message.                                *)
(***************************************************************************)
VendorNames == {"", "Acme", "Acme SaaS"}

\* vendorName.toLowerCase().includes(keyword), for the names of VendorNames
NameIncludes(vendorName, keyword) ==
  <<vendorName, keyword>> \in {<<"Acme SaaS", "saas">>}

\* the Japanese keywords of the source are written by their readings
categorizeVendor(vendorName) ==
  IF \E k \in {"denryoku", "gasu", "suidou"} : NameIncludes(vendorName, k) THEN "utilities"
  ELSE IF \E k \in {"sofuto", "kuraudo", "saas"} : NameIncludes(vendorName, k) THEN "software"
  ELSE IF \E k \in {"konsaru", "consulting"} : NameIncludes(vendorName, k) THEN "consulting"
  ELSE "other"

\* RealAIAnalysis: type and extractedData; an amount of 0 and a vendorName
\* of "" stand for a missing (falsy) value, title and startDate say whether
\* the value was extracted
Analysis(type, amount, vendorName, title, startDate) ==
  [type |-> type, amount |-> amount, vendorName |-> vendorName,
   title |-> title, startDate |-> startDate]

AIAnalyses ==
  {Analysis("INVOICE", a, v, FALSE, FALSE) : a \in {0, 50000, 200001}, v \in VendorNames}
    \cup {Analysis("INVOICE", -50000, "Acme", FALSE, FALSE)}
    \cup {Analysis("SCHEDULE", 0, "", t, d) : t \in BOOLEAN, d \in BOOLEAN}
    \cup {Analysis("OTHER", 0, "", FALSE, FALSE)}

\* timestamp: Math.floor(Date.now() / 1000)
generateIntentFromAI(aiResult, now) ==
  IF aiResult.type # "INVOICE" \/ aiResult.amount = 0 THEN None
  ELSE [amount |-> aiResult.amount,
        vendor |-> IF aiResult.vendorName = "" THEN "Unknown Vendor"
                   ELSE aiResult.vendorName,
        category |-> categorizeVendor(aiResult.vendorName),
        timestamp |-> now]

\* getDefaultConfig().userPolicy; minAIConfidence in percent
UserPolicy ==
  [maxPerPayment |-> 200000,
   maxPerDay |-> 1000000,
   maxPerWeek |-> 5000000,
   allowedVendors |-> <<>>,
   allowedHours |-> [start |-> 9, end |-> 18],
   allowedWeekdays |-> <<1, 2, 3, 4, 5>>,
   categoryRules |-> [c \in {"cloud-services", "software", "utilities"} |->
                        CASE c = "cloud-services" -> CategoryRule(300000, FALSE)
                          [] c = "software" -> CategoryRule(200000, TRUE)
                          [] c = "utilities" -> CategoryRule(100000, FALSE)],
   conditionalRules |-> <<CondRule("amount > 150000", "require_approval"),
                          CondRule("ai_confidence < 0.8", "require_approval")>>,
   minAIConfidence |-> 70]

\* this.integratedSystem.createDynamicPolicy('main_user', this.config.userPolicy):
\* the user policy arrives as the customRules argument
createUserPolicy(userPolicy) == createDynamicPolicy(userPolicy)

\* classification of ai-classifier.ts: type and extractedData (None is null)
Classification(type, extractedData) == [type |-> type, extractedData |-> extractedData]

ScheduleDatas == {[title |-> "Meeting", startDate |-> 468000]}

Classifications ==
  {Classification("invoice", d) : d \in InvoiceDatas \cup {None}}
    \cup {Classification("schedule", d) : d \in ScheduleDatas \cup {None}}
    \cup {Classification("other", None)}

ProcessingResult(type, success, action) ==
  [type |-> type, success |-> success, action |-> action]

\* what the call of an external service did
ServiceOutcomes == {"success", "failure", "throws"}

(***************************************************************************)
(* Initial states: the object is constructed, nothing is in progress.      *)
(***************************************************************************)
NoSpending == [currentSpending |-> 0, weeklySpending |-> 0]

(***************************************************************************)
(* ZKPProver and PaymentPlanner: the rule checks on a PaymentPlan against  *)
(* the UserRules of the configuration.                                     *)
(***************************************************************************)

\* the addresses the plans and the rules are drawn from: one checksummed
\* address of the configuration, its lower-case spelling, and a stranger
Addresses ==
  {"0xE2F2E032B02584e81437bA8Df18F03d6771F9d23",
   "0xe2f2e032b02584e81437ba8df18f03d6771f9d23",
   "0x000000000000000000000000000000000000dead"}

\* String.prototype.toLowerCase on the addresses above
toLowerCase(s) ==
  IF s = "0xE2F2E032B02584e81437bA8Df18F03d6771F9d23"
  THEN "0xe2f2e032b02584e81437ba8df18f03d6771f9d23"
  ELSE s

\* userRules of the processing configuration, as configured and with the
\* allow list already in lower case
UserRulesOf(allowed) ==
  [allowedAddresses |-> allowed,
   maxAmount        |-> 100000,
   maxDailyAmount   |-> 500000,
   allowedTimeStart |-> 9,
   allowedTimeEnd   |-> 18]

ConfiguredUserRules ==
  {UserRulesOf(<<"0xE2F2E032B02584e81437bA8Df18F03d6771F9d23">>),
   UserRulesOf(<<"0xe2f2e032b02584e81437ba8df18f03d6771f9d23">>)}

\* Tuesday 08:00, 10:00, 18:00 and 19:00
PlanTimestamps == {460800, 468000, 496800, 500400}

PlanAmounts == {100000, 100001}

PaymentPlans ==
  [toAddress : Addresses, amount : PlanAmounts, timestamp : PlanTimestamps]

\* ZKPProver.validatePaymentRulesManually
validatePaymentRulesManually(plan, userRules) ==
  LET addressAllowed ==
        \E k \in DOMAIN userRules.allowedAddresses :
          toLowerCase(userRules.allowedAddresses[k]) =
            toLowerCase(plan.toAddress)
      currentHour == getHours(plan.timestamp)
  IN  IF ~addressAllowed THEN FALSE
      ELSE IF plan.amount > userRules.maxAmount THEN FALSE
      ELSE IF currentHour < userRules.allowedTimeStart
                \/ currentHour > userRules.allowedTimeEnd THEN FALSE
      ELSE TRUE

\* the ZKPProof generatePaymentProof answers with when it did not run the circuit
ManualProof(kind, isValid) ==
  [proof         |-> [kind |-> kind, type |-> "payment"],
   publicSignals |-> <<IF isValid THEN "1" ELSE "0">>,
   isValid       |-> isValid]

\* PaymentPlanner.checkRuleCompliance; confidence in tenths
checkRuleCompliance(plan, userRules) ==
  LET paymentHour == getHours(plan.timestamp)
      address == ~Includes(userRules.allowedAddresses,
                           toLowerCase(plan.toAddress))
      amount == plan.amount > userRules.maxAmount
      time == \/ paymentHour < userRules.allowedTimeStart
              \/ paymentHour > userRules.allowedTimeEnd
      violations ==
        (IF address THEN <<"address_not_whitelisted">> ELSE <<>>)
          \o (IF amount THEN <<"amount_exceeds_limit">> ELSE <<>>)
          \o (IF time THEN <<"time_restriction">> ELSE <<>>)
      confidence == 10 - (IF address THEN 4 ELSE 0)
                       - (IF amount THEN 5 ELSE 0)
                       - (IF time THEN 2 ELSE 0)
  IN  [isCompliant |-> Len(violations) = 0,
       violations  |-> violations,
       confidence  |-> MathMax(confidence, 0)]

(***************************************************************************)
(* RealPaymentExecutor: the whitelist of the constructor and the requests  *)
(* handed to executePayment.  Amounts of ether are in milli-ether.         *)
(***************************************************************************)
whitelistedAddresses ==
  <<"0xE2F2E032B02584e81437bA8Df18F03d6771F9d23",
    "0xF2431b618B5b02923922c525885DBfFcdb9DE853">>

PaymentRequests == [to : Addresses, amount : {50000, 300000}]

\* request.amount / 300000 ether, parsed to the unit of the model
weiAmount(amount) == (amount * 1000) \div 300000

\* what walletClient.getBalance answers
Balances == {0, 500, 1000}

\* fault variant: every destination counts as whitelisted
IsWhitelistedAlways(to) == TRUE

\* this.whitelistedAddresses.includes(request.to)
IsWhitelisted(to) == Includes(whitelistedAddresses, to)

PaymentFailure(error) == [success |-> FALSE, error |-> error]

PaymentSuccess(hash) == [success |-> TRUE, transactionHash |-> hash]

(***************************************************************************)
(* EmailProcessor of ai-classifier.ts under concurrent callers: the        *)
(* processingQueue entry of one message id and the runs of                 *)
(* doProcessSingleEmail started for it.                                    *)
(***************************************************************************)
MaxRuns == 2

\* a run of doProcessSingleEmail: processEmailInternal is running or done,
\* Promise.race is pending or settled by the result or by the timeout, and a
\* payment was or was not handed to the blockchain service
Run(internal, returned, paid) ==
  [internal |-> internal, returned |-> returned, paid |-> paid]

NewRun == Run("running", "pending", FALSE)

\* no entry of processingQueue for the message id
NoEntry == 0

IdleEval ==
  /\ pc = "idle"
  /\ intent = None
  /\ preEvaluation = None
  /\ execOutcome = None
  /\ zkVMResult = None
  /\ evaluation = None
  /\ trace = <<>>

IdleVerifier ==
  /\ verifyPc = "idle"
  /\ zkpProof = None
  /\ workerOutcome = None
  /\ verifyResult = None

IdleProcessor ==
  /\ procPc = "idle"
  /\ message = None
  /\ policyResult = None
  /\ payments = <<>>
  /\ calendarEvents = <<>>
  /\ result = None

InitIntegrated ==
  /\ sut = "integrated"
  /\ policy \in InitialPolicies
  /\ zkVMExists \in BOOLEAN
  /\ enableProofGeneration = TRUE
  /\ verificationKeyExists = FALSE
  /\ spending = NoSpending
  /\ config = None

InitEngine ==
  /\ sut = "engine"
  /\ policy \in EnginePolicies
  /\ zkVMExists \in BOOLEAN
  /\ enableProofGeneration \in BOOLEAN
  /\ verificationKeyExists = FALSE
  /\ spending = NoSpending
  /\ config = None

InitVerifier ==
  /\ sut = "verifier"
  /\ policy = None
  /\ zkVMExists = FALSE
  /\ enableProofGeneration = FALSE
  /\ verificationKeyExists \in BOOLEAN
  /\ spending = NoSpending
  /\ config = None

\* EmailProcessor of email-processor.ts: new IntegratedAIZkVMSystem() inside
InitIntegratedProcessor ==
  /\ sut = "integratedProcessor"
  /\ policy = None
  /\ zkVMExists \in BOOLEAN
  /\ enableProofGeneration = TRUE
  /\ verificationKeyExists = FALSE
  /\ spending = NoSpending
  /\ config \in [paymentEnabled : BOOLEAN, userPolicy : {UserPolicy}]

\* EmailProcessor of ai-classifier.ts: new PaymentPolicyEvaluator(config.paymentPolicy)
InitPolicyProcessor ==
  /\ sut = "policyProcessor"
  /\ policy = None
  /\ zkVMExists = FALSE
  /\ enableProofGeneration = FALSE
  /\ verificationKeyExists = FALSE
  /\ spending = NoSpending
  /\ config \in [paymentPolicy : PaymentPolicies,
                  autoProcessSchedules : BOOLEAN,
                  autoProcessPayments : BOOLEAN]

IdlePlan ==
  /\ planPc = "idle"
  /\ paymentPlan = None
  /\ compliance = None

\* ZKPProver with the userRules of the configuration
InitProver ==
  /\ sut = "prover"
  /\ policy = None
  /\ zkVMExists = FALSE
  /\ enableProofGeneration = FALSE
  /\ verificationKeyExists = FALSE
  /\ spending = NoSpending
  /\ config \in [userRules : ConfiguredUserRules]

\* PaymentPlanner with the userRules of the configuration
InitPlanner ==
  /\ sut = "planner"
  /\ policy = None
  /\ zkVMExists = FALSE
  /\ enableProofGeneration = FALSE
  /\ verificationKeyExists = FALSE
  /\ spending = NoSpending
  /\ config \in [userRules : ConfiguredUserRules]

IdlePayment ==
  /\ payPc = "idle"
  /\ request = None
  /\ paymentResult = None
  /\ transactions = <<>>

\* new RealPaymentExecutor()
InitExecutor ==
  /\ sut = "executor"
  /\ policy = None
  /\ zkVMExists = FALSE
  /\ enableProofGeneration = FALSE
  /\ verificationKeyExists = FALSE
  /\ spending = NoSpending
  /\ config = None

IdleQueue ==
  /\ processingQueue = NoEntry
  /\ runs = <<>>
  /\ cleanupTimers = 0
  /\ lastCall = None

\* new EmailProcessor(config): private processingQueue = new Map()
InitQueueProcessor ==
  /\ sut = "queueProcessor"
  /\ policy = None
  /\ zkVMExists = FALSE
  /\ enableProofGeneration = FALSE
  /\ verificationKeyExists = FALSE
  /\ spending = NoSpending
  /\ config = None

Init ==
  /\ \/ InitIntegrated
     \/ InitEngine
     \/ InitVerifier
     \/ InitIntegratedProcessor
     \/ InitPolicyProcessor
     \/ InitProver
     \/ InitPlanner
     \/ InitExecutor
     \/ InitQueueProcessor
  /\ policyEdits = 0
  /\ IdleEval
  /\ IdleVerifier
  /\ IdleProcessor
  /\ IdlePlan
  /\ IdlePayment
  /\ IdleQueue

(***************************************************************************)
(* Policy edits of the caller, between evaluations.                        *)
(***************************************************************************)
AddConditionalRule ==
  /\ sut = "integrated" /\ pc = "idle"
  /\ policyEdits < MaxPolicyEdits
  /\ \E condition \in ConditionInputs, action \in RuleActions :
       policy' = addConditionalRule(policy, condition, action)
  /\ policyEdits' = policyEdits + 1
  /\ UNCHANGED <<envVars, queueVars, payVars, planVars, procVars, verifierVars, spending, evalVars>>

AddCustomRule ==
  /\ sut = "integrated" /\ pc = "idle"
  /\ policyEdits < MaxPolicyEdits
  /\ \E requireApproval \in BOOLEAN :
       policy' = addCustomRule(policy, "other", CategoryRule(150000, requireApproval))
  /\ policyEdits' = policyEdits + 1
  /\ UNCHANGED <<envVars, queueVars, payVars, planVars, procVars, verifierVars, spending, evalVars>>

\* the object under test evaluates through an IntegratedAIZkVMSystem
UsesIntegratedSystem == sut \in {"integrated", "integratedProcessor"}

(***************************************************************************)
(* IntegratedAIZkVMSystem.evaluateWithZkVM(intent, policy).                *)
(***************************************************************************)
EvaluateWithZkVM_Call ==
  /\ sut = "integrated" /\ pc = "idle"
  /\ \E i \in Intents : intent' = i
  /\ pc' = "start"
  /\ trace' = <<"Start">>
  /\ UNCHANGED <<envVars, queueVars, payVars, planVars, procVars, verifierVars, policy, policyEdits, spending,
                 preEvaluation, execOutcome, zkVMResult, evaluation>>

\* const preEvaluation = this.evaluateCustomRules(intent, policy)
EvaluateWithZkVM_PreEvaluate ==
  /\ UsesIntegratedSystem /\ pc = "start"
  /\ preEvaluation' = evaluateCustomRules(intent, policy)
  /\ pc' = "preEvaluated"
  /\ trace' = Append(trace, "ManualEvaluated")
  /\ UNCHANGED <<envVars, queueVars, payVars, planVars, procVars, verifierVars, policy, policyEdits, spending,
                 intent, execOutcome, zkVMResult, evaluation>>

\* if (!zkVMExists) return { ...preEvaluation, proofGenerated: false }
EvaluateWithZkVM_NoBinary ==
  /\ UsesIntegratedSystem /\ pc = "preEvaluated"
  /\ ~zkVMExists
  /\ execOutcome' = Failed("binary_missing")
  /\ evaluation' = WithProof(preEvaluation, FALSE)
  /\ pc' = "returned"
  /\ trace' = trace \o <<"ProofUnavailable", "Composed", "Returned">>
  /\ UNCHANGED <<envVars, queueVars, payVars, planVars, procVars, verifierVars, policy, policyEdits, spending,
                 intent, preEvaluation, zkVMResult>>

\* createZkVMParamsFile, then execAsync(...) is pending
EvaluateWithZkVM_Launch ==
  /\ UsesIntegratedSystem /\ pc = "preEvaluated"
  /\ zkVMExists
  /\ pc' = "proving"
  /\ trace' = Append(trace, "ProofAttempted")
  /\ UNCHANGED <<envVars, queueVars, payVars, planVars, procVars, verifierVars, policy, policyEdits, spending,
                 intent, preEvaluation, execOutcome, zkVMResult, evaluation>>

\* an error that leaves the entry point instead of a Decision
Raised(error) == [raised |-> error]

\* fault variant: the catch block lets the error go to the caller
FallbackRethrown == Raised("zkVM evaluation error")

\* catch (error): const fallbackResult = this.evaluateCustomRules(intent, policy);
\* return { ...fallbackResult, proofGenerated: false }
FallbackResult == WithProof(evaluateCustomRules(intent, policy), FALSE)

\* execAsync rejected: finally, then the outer catch evaluates again
EvaluateWithZkVM_ProofFails ==
  /\ UsesIntegratedSystem /\ pc = "proving"
  /\ \E kind \in ExecFailures : execOutcome' = Failed(kind)
  /\ evaluation' = FallbackResult
  /\ pc' = "returned"
  /\ trace' = trace \o <<"ProofUnavailable", "Composed", "Returned">>
  /\ UNCHANGED <<envVars, queueVars, payVars, planVars, procVars, verifierVars, policy, policyEdits, spending,
                 intent, preEvaluation, zkVMResult>>

\* execAsync resolved: parse stdout, combineResults, return
EvaluateWithZkVM_ProofExits ==
  /\ UsesIntegratedSystem /\ pc = "proving"
  /\ \E stdout \in Stdouts :
       /\ execOutcome' = Exited(stdout)
       /\ zkVMResult' = executeZkVMWithParams(stdout)
  /\ evaluation' = WithProof(combineResults(preEvaluation, zkVMResult'), TRUE)
  /\ pc' = "returned"
  /\ trace' = trace \o <<"ProofSucceeded", "Composed", "Returned">>
  /\ UNCHANGED <<envVars, queueVars, payVars, planVars, procVars, verifierVars, policy, policyEdits, spending, intent, preEvaluation>>

(***************************************************************************)
(* ZkVMPolicyEngine.evaluatePaymentIntent(intent, policy, currentSpending, *)
(* weeklySpending).                                                        *)
(***************************************************************************)
\* fault variant: the fallback assumes the payment is valid
ManualResultAssumingValid ==
  WithProof([approved |-> TRUE, riskScore |-> 0, violationCount |-> 0], FALSE)

\* const manualResult = this.evaluateManually(...); { ...manualResult, proofGenerated: false }
ManualResult ==
  WithProof(evaluateManually(intent, policy, spending.currentSpending,
                             spending.weeklySpending), FALSE)

EvaluatePaymentIntent_Call ==
  /\ sut = "engine" /\ pc = "idle"
  /\ \E i \in EngineIntents : intent' = i
  /\ \E sp \in Spendings : spending' = sp
  /\ pc' = "start"
  /\ trace' = <<"Start">>
  /\ UNCHANGED <<envVars, queueVars, payVars, planVars, procVars, verifierVars, policy, policyEdits,
                 preEvaluation, execOutcome, zkVMResult, evaluation>>

\* throw new Error('zkVM host binary not found'), caught: manual evaluation
EvaluatePaymentIntent_NoBinary ==
  /\ sut = "engine" /\ pc = "start"
  /\ ~zkVMExists
  /\ execOutcome' = Failed("binary_missing")
  /\ evaluation' = ManualResult
  /\ pc' = "returned"
  /\ trace' = trace \o <<"ProofUnavailable", "ManualEvaluated", "Composed", "Returned">>
  /\ UNCHANGED <<envVars, queueVars, payVars, planVars, procVars, verifierVars, policy, policyEdits, spending,
                 intent, preEvaluation, zkVMResult>>

\* if (!this.config.enableProofGeneration): manual evaluation
EvaluatePaymentIntent_Disabled ==
  /\ sut = "engine" /\ pc = "start"
  /\ zkVMExists /\ ~enableProofGeneration
  /\ execOutcome' = Failed("disabled")
  /\ evaluation' = ManualResult
  /\ pc' = "returned"
  /\ trace' = trace \o <<"ManualEvaluated", "Composed", "Returned">>
  /\ UNCHANGED <<envVars, queueVars, payVars, planVars, procVars, verifierVars, policy, policyEdits, spending,
                 intent, preEvaluation, zkVMResult>>

\* prepareInputData, createTempInputFile, then execAsync(...) is pending
EvaluatePaymentIntent_Launch ==
  /\ sut = "engine" /\ pc = "start"
  /\ zkVMExists /\ enableProofGeneration
  /\ pc' = "proving"
  /\ trace' = Append(trace, "ProofAttempted")
  /\ UNCHANGED <<envVars, queueVars, payVars, planVars, procVars, verifierVars, policy, policyEdits, spending,
                 intent, preEvaluation, execOutcome, zkVMResult, evaluation>>

\* execAsync rejected: finally, then the outer catch evaluates manually
EvaluatePaymentIntent_ProofFails ==
  /\ sut = "engine" /\ pc = "proving"
  /\ \E kind \in ExecFailures : execOutcome' = Failed(kind)
  /\ evaluation' = ManualResult
  /\ pc' = "returned"
  /\ trace' = trace \o <<"ProofUnavailable", "ManualEvaluated", "Composed", "Returned">>
  /\ UNCHANGED <<envVars, queueVars, payVars, planVars, procVars, verifierVars, policy, policyEdits, spending,
                 intent, preEvaluation, zkVMResult>>

\* execAsync resolved: return { ...result, proofGenerated: true }
EvaluatePaymentIntent_ProofExits ==
  /\ sut = "engine" /\ pc = "proving"
  /\ \E stdout \in Stdouts :
       /\ execOutcome' = Exited(stdout)
       /\ zkVMResult' = executeZkVMHost(stdout)
  /\ evaluation' = WithProof(zkVMResult', TRUE)
  /\ pc' = "returned"
  /\ trace' = trace \o <<"ProofSucceeded", "Composed", "Returned">>
  /\ UNCHANGED <<envVars, queueVars, payVars, planVars, procVars, verifierVars, policy, policyEdits, spending, intent, preEvaluation>>

\* the caller has the Decision; the locals of the call are gone
EvaluationReturn ==
  /\ sut \in {"integrated", "engine"} /\ pc = "returned"
  /\ pc' = "idle"
  /\ intent' = None
  /\ preEvaluation' = None
  /\ execOutcome' = None
  /\ zkVMResult' = None
  /\ evaluation' = None
  /\ trace' = <<>>
  /\ spending' = NoSpending
  /\ UNCHANGED <<envVars, queueVars, payVars, planVars, procVars, verifierVars, policy, policyEdits>>

(***************************************************************************)
(* ZKPVerifier.verifyProof(zkpProof).                                      *)
(***************************************************************************)
\* a ZKPProof: proof.mock, proof.error, proof.validated and isValid
ZKPProofs == [mock : BOOLEAN, error : BOOLEAN, validated : BOOLEAN, isValid : BOOLEAN]

\* the last line of the worker's stdout: JSON or not, and its fields
WorkerLines ==
  [json : {TRUE}, success : BOOLEAN, isValid : BOOLEAN]
    \cup {[json |-> FALSE, success |-> FALSE, isValid |-> FALSE]}

WorkerExited(line) == [kind |-> "exited", line |-> line]

WorkerFailed(kind) == [kind |-> kind, line |-> None]

\* JSON.parse(lastLine); if (!result.success) throw; return result.isValid;
\* every throw is caught: return false
WorkerVerdict(line) ==
  IF ~line.json THEN FALSE
  ELSE IF ~line.success THEN FALSE
  ELSE line.isValid

VerifyProof_Call ==
  /\ sut = "verifier" /\ verifyPc = "idle"
  /\ \E proof \in ZKPProofs : zkpProof' = proof
  /\ verifyPc' = "called"
  /\ UNCHANGED <<envVars, queueVars, payVars, planVars, procVars, policy, policyEdits, spending, evalVars,
                 workerOutcome, verifyResult>>

\* if (zkpProof.proof.mock) return zkpProof.proof.validated
VerifyProof_Mock ==
  /\ verifyPc = "called"
  /\ zkpProof.mock
  /\ verifyResult' = zkpProof.validated
  /\ verifyPc' = "returned"
  /\ UNCHANGED <<envVars, queueVars, payVars, planVars, procVars, policy, policyEdits, spending, evalVars,
                 zkpProof, workerOutcome>>

\* if (zkpProof.proof.error) return zkpProof.isValid
VerifyProof_Error ==
  /\ verifyPc = "called"
  /\ ~zkpProof.mock /\ zkpProof.error
  /\ verifyResult' = zkpProof.isValid
  /\ verifyPc' = "returned"
  /\ UNCHANGED <<envVars, queueVars, payVars, planVars, procVars, policy, policyEdits, spending, evalVars,
                 zkpProof, workerOutcome>>

\* if (!this.checkVerificationKey()) return zkpProof.isValid
VerifyProof_NoKey ==
  /\ verifyPc = "called"
  /\ ~zkpProof.mock /\ ~zkpProof.error
  /\ ~verificationKeyExists
  /\ verifyResult' = zkpProof.isValid
  /\ verifyPc' = "returned"
  /\ UNCHANGED <<envVars, queueVars, payVars, planVars, procVars, policy, policyEdits, spending, evalVars,
                 zkpProof, workerOutcome>>

\* the key is read and the worker process is started
VerifyProof_Launch ==
  /\ verifyPc = "called"
  /\ ~zkpProof.mock /\ ~zkpProof.error
  /\ verificationKeyExists
  /\ verifyPc' = "verifying"
  /\ UNCHANGED <<envVars, queueVars, payVars, planVars, procVars, policy, policyEdits, spending, evalVars,
                 zkpProof, workerOutcome, verifyResult>>

\* execAsync rejected (timeout, non-zero exit, buffer overflow): return false
VerifyProof_WorkerFails ==
  /\ verifyPc = "verifying"
  /\ \E kind \in ExecFailures : workerOutcome' = WorkerFailed(kind)
  /\ verifyResult' = FALSE
  /\ verifyPc' = "returned"
  /\ UNCHANGED <<envVars, queueVars, payVars, planVars, procVars, policy, policyEdits, spending, evalVars, zkpProof>>

VerifyProof_WorkerExits ==
  /\ verifyPc = "verifying"
  /\ \E line \in WorkerLines :
       /\ workerOutcome' = WorkerExited(line)
       /\ verifyResult' = WorkerVerdict(line)
  /\ verifyPc' = "returned"
  /\ UNCHANGED <<envVars, queueVars, payVars, planVars, procVars, policy, policyEdits, spending, evalVars, zkpProof>>

VerifyProof_Return ==
  /\ verifyPc = "returned"
  /\ verifyPc' = "idle"
  /\ zkpProof' = None
  /\ workerOutcome' = None
  /\ verifyResult' = None
  /\ UNCHANGED <<envVars, queueVars, payVars, planVars, procVars, policy, policyEdits, spending, evalVars>>

(***************************************************************************)
(* EmailProcessor of email-processor.ts: processMessage(message).          *)
(***************************************************************************)
ProcessMessage_Call ==
  /\ sut = "integratedProcessor" /\ procPc = "idle"
  /\ procPc' = "called"
  /\ UNCHANGED <<envVars, queueVars, payVars, planVars, verifierVars, policy, policyEdits, spending, evalVars,
                 message, policyResult, payments, calendarEvents, result>>

\* securityCheck.phishingSuspected || securityCheck.riskScore > 0.95
ProcessMessage_Blocked ==
  /\ sut = "integratedProcessor" /\ procPc = "called"
  /\ result' = ProcessingResult("other", FALSE, "blocked_security")
  /\ procPc' = "done"
  /\ UNCHANGED <<envVars, queueVars, payVars, planVars, verifierVars, policy, policyEdits, spending, evalVars,
                 message, policyResult, payments, calendarEvents>>

\* const aiAnalysis = await this.localAI.analyzeEmail(body, subject)
ProcessMessage_Analyze ==
  /\ sut = "integratedProcessor" /\ procPc = "called"
  /\ \E aiAnalysis \in AIAnalyses : message' = aiAnalysis
  /\ procPc' = "analyzed"
  /\ UNCHANGED <<envVars, queueVars, payVars, planVars, verifierVars, policy, policyEdits, spending, evalVars,
                 policyResult, payments, calendarEvents, result>>

\* switch (aiAnalysis.type) default
ProcessMessage_Other ==
  /\ sut = "integratedProcessor" /\ procPc = "analyzed"
  /\ message.type \notin {"INVOICE", "SCHEDULE"}
  /\ result' = ProcessingResult("other", TRUE, "classified_other")
  /\ procPc' = "done"
  /\ UNCHANGED <<envVars, queueVars, payVars, planVars, verifierVars, policy, policyEdits, spending, evalVars,
                 message, policyResult, payments, calendarEvents>>

\* processInvoice: if (!paymentIntent) return intent_generation_failed
ProcessInvoice_NoIntent ==
  /\ sut = "integratedProcessor" /\ procPc = "analyzed"
  /\ message.type = "INVOICE"
  /\ \E now \in Timestamps : generateIntentFromAI(message, now) = None
  /\ result' = ProcessingResult("invoice", FALSE, "intent_generation_failed")
  /\ procPc' = "done"
  /\ UNCHANGED <<envVars, queueVars, payVars, planVars, verifierVars, policy, policyEdits, spending, evalVars,
                 message, policyResult, payments, calendarEvents>>

\* processInvoice: the intent, createUserPolicy(), and the call of
\* evaluateWithZkVM(paymentIntent, dynamicPolicy)
ProcessInvoice_Evaluate ==
  /\ sut = "integratedProcessor" /\ procPc = "analyzed"
  /\ message.type = "INVOICE"
  /\ \E now \in Timestamps :
       /\ generateIntentFromAI(message, now) # None
       /\ intent' = generateIntentFromAI(message, now)
  /\ policy' = createUserPolicy(config.userPolicy)
  /\ pc' = "start"
  /\ trace' = <<"Start">>
  /\ procPc' = "evaluating"
  /\ UNCHANGED <<envVars, queueVars, payVars, planVars, verifierVars, policyEdits, spending,
                 preEvaluation, execOutcome, zkVMResult, evaluation,
                 message, policyResult, payments, calendarEvents, result>>

\* PaymentRequest handed to RealPaymentExecutor.executePayment
PaymentRequest(to, amount) == [to |-> to, amount |-> amount]

\* processInvoice after evaluateWithZkVM returned: the payment is executed
\* if (zkVMEvaluation.approved && this.config.payment.enabled); a throw of
\* the executor is caught: processing_error
ProcessInvoice_Settle ==
  /\ sut = "integratedProcessor" /\ procPc = "evaluating" /\ pc = "returned"
  /\ IF evaluation.approved /\ config.paymentEnabled
       THEN /\ payments' = Append(payments, PaymentRequest("0x0000000000000000000000000000000000000000", intent.amount))
            /\ \E outcome \in ServiceOutcomes :
                 result' = IF outcome = "throws"
                             THEN ProcessingResult("invoice", FALSE, "processing_error")
                           ELSE ProcessingResult("invoice", TRUE, "payment_executed")
       ELSE /\ payments' = payments
            /\ result' = ProcessingResult("invoice", TRUE,
                           IF evaluation.approved THEN "payment_executed"
                           ELSE "payment_rejected")
  /\ procPc' = "done"
  /\ UNCHANGED <<envVars, queueVars, payVars, planVars, verifierVars, policy, policyEdits, spending, evalVars,
                 message, policyResult, calendarEvents>>

\* processSchedule: the event is created from the extracted data alone;
\* missing data and a throw of the calendar service are caught
ProcessSchedule ==
  /\ sut = "integratedProcessor" /\ procPc = "analyzed"
  /\ message.type = "SCHEDULE"
  /\ IF ~message.title \/ ~message.startDate
       THEN /\ calendarEvents' = calendarEvents
            /\ result' = ProcessingResult("schedule", FALSE, "processing_error")
       ELSE \E outcome \in {"success", "throws"} :
              IF outcome = "throws"
                THEN /\ calendarEvents' = calendarEvents
                     /\ result' = ProcessingResult("schedule", FALSE, "processing_error")
              ELSE /\ calendarEvents' = Append(calendarEvents, "event")
                   /\ result' = ProcessingResult("schedule", TRUE, "calendar_event_created")
  /\ procPc' = "done"
  /\ UNCHANGED <<envVars, queueVars, payVars, planVars, verifierVars, policy, policyEdits, spending, evalVars,
                 message, policyResult, payments>>

(***************************************************************************)
(* EmailProcessor of ai-classifier.ts: processSingleEmail(message), one    *)
(* message at a time.                                                      *)
(***************************************************************************)
ProcessSingleEmail_Call ==
  /\ sut = "policyProcessor" /\ procPc = "idle"
  /\ procPc' = "called"
  /\ UNCHANGED <<envVars, queueVars, payVars, planVars, verifierVars, policy, policyEdits, spending, evalVars,
                 message, policyResult, payments, calendarEvents, result>>

\* processEmailInternal: the security check blocks the message, or the
\* pre-filter skips it
ProcessEmailInternal_NotProcessed ==
  /\ sut = "policyProcessor" /\ procPc = "called"
  /\ \E action \in {"blocked_suspicious", "skipped"} :
       result' = ProcessingResult("other", TRUE, action)
  /\ procPc' = "done"
  /\ UNCHANGED <<envVars, queueVars, payVars, planVars, verifierVars, policy, policyEdits, spending, evalVars,
                 message, policyResult, payments, calendarEvents>>

\* const classification = await this.aiClassifier.classifyAndExtract(...)
ProcessEmailInternal_Classify ==
  /\ sut = "policyProcessor" /\ procPc = "called"
  /\ \E classification \in Classifications : message' = classification
  /\ procPc' = "classified"
  /\ UNCHANGED <<envVars, queueVars, payVars, planVars, verifierVars, policy, policyEdits, spending, evalVars,
                 policyResult, payments, calendarEvents, result>>

\* switch (classification.type) default
ProcessEmailInternal_NoAction ==
  /\ sut = "policyProcessor" /\ procPc = "classified"
  /\ message.type \notin {"schedule", "invoice"}
  /\ result' = ProcessingResult("other", TRUE, "no_action")
  /\ procPc' = "done"
  /\ UNCHANGED <<envVars, queueVars, payVars, planVars, verifierVars, policy, policyEdits, spending, evalVars,
                 message, policyResult, payments, calendarEvents>>

\* processScheduleEmail: calendarService.createEvent(scheduleData) unless the
\* data is missing or config.options.autoProcessSchedules is off
ProcessScheduleEmail ==
  /\ sut = "policyProcessor" /\ procPc = "classified"
  /\ message.type = "schedule"
  /\ IF message.extractedData = None
       THEN /\ calendarEvents' = calendarEvents
            /\ result' = ProcessingResult("schedule", FALSE, "extraction_failed")
     ELSE IF ~config.autoProcessSchedules
       THEN /\ calendarEvents' = calendarEvents
            /\ result' = ProcessingResult("schedule", TRUE, "manual_approval_required")
     ELSE \E outcome \in ServiceOutcomes :
            IF outcome = "success"
              THEN /\ calendarEvents' = Append(calendarEvents, "event")
                   /\ result' = ProcessingResult("schedule", TRUE, "calendar_created")
            ELSE /\ calendarEvents' = calendarEvents
                 /\ result' = ProcessingResult("schedule", FALSE,
                                IF outcome = "failure" THEN "calendar_creation_failed"
                                ELSE "processing_error")
  /\ procPc' = "done"
  /\ UNCHANGED <<envVars, queueVars, payVars, planVars, verifierVars, policy, policyEdits, spending, evalVars,
                 message, policyResult, payments>>

\* processInvoiceEmail: if (!invoiceData) return extraction_failed
ProcessInvoiceEmail_ExtractionFailed ==
  /\ sut = "policyProcessor" /\ procPc = "classified"
  /\ message.type = "invoice" /\ message.extractedData = None
  /\ result' = ProcessingResult("invoice", FALSE, "extraction_failed")
  /\ procPc' = "done"
  /\ UNCHANGED <<envVars, queueVars, payVars, planVars, verifierVars, policy, policyEdits, spending, evalVars,
                 message, policyResult, payments, calendarEvents>>

\* const policyResult = await this.policyEvaluator.evaluatePayment(
\*   invoiceData, currentSpending), with currentTime = new Date()
ProcessInvoiceEmail_Evaluate ==
  /\ sut = "policyProcessor" /\ procPc = "classified"
  /\ message.type = "invoice" /\ message.extractedData # None
  /\ \E currentTime \in Timestamps :
       policyResult' = evaluatePayment(config.paymentPolicy, message.extractedData,
                                       getCurrentSpending, currentTime)
  /\ procPc' = "evaluated"
  /\ UNCHANGED <<envVars, queueVars, payVars, planVars, verifierVars, policy, policyEdits, spending, evalVars,
                 message, payments, calendarEvents, result>>

\* if (policyResult.requiresManualApproval || !this.config.options.autoProcessPayments)
ManualApprovalGate(evaluated, options) ==
  evaluated.requiresManualApproval \/ ~options.autoProcessPayments

\* fault variant: a policy violation does not stop the payment
PolicyViolationGateOpen(evaluated) == FALSE

\* if (!policyResult.approved)
PolicyViolationGate(evaluated) == ~evaluated.approved

ProcessInvoiceEmail_ManualApproval ==
  /\ sut = "policyProcessor" /\ procPc = "evaluated"
  /\ ManualApprovalGate(policyResult, config)
  /\ result' = ProcessingResult("invoice", TRUE, "manual_approval_required")
  /\ procPc' = "done"
  /\ UNCHANGED <<envVars, queueVars, payVars, planVars, verifierVars, policy, policyEdits, spending, evalVars,
                 message, policyResult, payments, calendarEvents>>

ProcessInvoiceEmail_Rejected ==
  /\ sut = "policyProcessor" /\ procPc = "evaluated"
  /\ ~ManualApprovalGate(policyResult, config)
  /\ PolicyViolationGate(policyResult)
  /\ result' = ProcessingResult("invoice", TRUE, "payment_rejected")
  /\ procPc' = "done"
  /\ UNCHANGED <<envVars, queueVars, payVars, planVars, verifierVars, policy, policyEdits, spending, evalVars,
                 message, policyResult, payments, calendarEvents>>

\* this.blockchainService.executePayment(invoiceData, jpycTokenAddress) is pending
ProcessInvoiceEmail_ExecutePayment ==
  /\ sut = "policyProcessor" /\ procPc = "evaluated"
  /\ ~ManualApprovalGate(policyResult, config)
  /\ ~PolicyViolationGate(policyResult)
  /\ payments' = Append(payments, PaymentRequest(message.extractedData.vendorEmail,
                                                 message.extractedData.amount))
  /\ procPc' = "paying"
  /\ UNCHANGED <<envVars, queueVars, payVars, planVars, verifierVars, policy, policyEdits, spending, evalVars,
                 message, policyResult, calendarEvents, result>>

\* paymentResult.success, !paymentResult.success, or a throw that is caught
ProcessInvoiceEmail_PaymentDone ==
  /\ sut = "policyProcessor" /\ procPc = "paying"
  /\ \E outcome \in ServiceOutcomes :
       result' = CASE outcome = "success" ->
                        ProcessingResult("invoice", TRUE, "payment_completed")
                   [] outcome = "failure" ->
                        ProcessingResult("invoice", FALSE, "payment_failed")
                   [] outcome = "throws" ->
                        ProcessingResult("invoice", FALSE, "processing_error")
  /\ procPc' = "done"
  /\ UNCHANGED <<envVars, queueVars, payVars, planVars, verifierVars, policy, policyEdits, spending, evalVars,
                 message, policyResult, payments, calendarEvents>>

\* the caller has the ProcessingResult; the locals of the run are gone
ProcessingReturn ==
  /\ sut \in {"integratedProcessor", "policyProcessor"} /\ procPc = "done"
  /\ procPc' = "idle"
  /\ message' = None
  /\ policyResult' = None
  /\ payments' = <<>>
  /\ calendarEvents' = <<>>
  /\ result' = None
  /\ policy' = None
  /\ pc' = "idle"
  /\ intent' = None
  /\ preEvaluation' = None
  /\ execOutcome' = None
  /\ zkVMResult' = None
  /\ evaluation' = None
  /\ trace' = <<>>
  /\ UNCHANGED <<envVars, queueVars, payVars, planVars, verifierVars, policyEdits, spending>>

(***************************************************************************)
(* ZKPProver.generatePaymentProof and PaymentPlanner.checkRuleCompliance.  *)
(***************************************************************************)

GeneratePaymentProof_Call ==
  /\ sut = "prover" /\ planPc = "idle"
  /\ \E plan \in PaymentPlans : paymentPlan' = plan
  /\ planPc' = "generating"
  /\ UNCHANGED <<envVars, queueVars, payVars, procVars, verifierVars, evalVars, policy,
                 policyEdits, spending, compliance>>

\* checkCircuitFiles() is false: only the manual validation runs
GeneratePaymentProof_NoCircuit ==
  /\ sut = "prover" /\ planPc = "generating"
  /\ compliance' = ManualProof("mock",
       validatePaymentRulesManually(paymentPlan, config.userRules))
  /\ planPc' = "done"
  /\ UNCHANGED <<envVars, queueVars, payVars, procVars, verifierVars, evalVars, policy,
                 policyEdits, spending, paymentPlan>>

\* the worker process fails: the catch block validates manually
GeneratePaymentProof_Error ==
  /\ sut = "prover" /\ planPc = "generating"
  /\ compliance' = ManualProof("error",
       validatePaymentRulesManually(paymentPlan, config.userRules))
  /\ planPc' = "done"
  /\ UNCHANGED <<envVars, queueVars, payVars, procVars, verifierVars, evalVars, policy,
                 policyEdits, spending, paymentPlan>>

\* the worker process answers with a proof and its own isValid
GeneratePaymentProof_Proved ==
  /\ sut = "prover" /\ planPc = "generating"
  /\ \E isValid \in BOOLEAN :
       compliance' = [proof         |-> [kind |-> "groth16", type |-> "payment"],
                      publicSignals |-> <<IF isValid THEN "1" ELSE "0">>,
                      isValid       |-> isValid]
  /\ planPc' = "done"
  /\ UNCHANGED <<envVars, queueVars, payVars, procVars, verifierVars, evalVars, policy,
                 policyEdits, spending, paymentPlan>>

CheckRuleCompliance ==
  /\ sut = "planner" /\ planPc = "idle"
  /\ \E plan \in PaymentPlans :
       /\ paymentPlan' = plan
       /\ compliance' = checkRuleCompliance(plan, config.userRules)
  /\ planPc' = "done"
  /\ UNCHANGED <<envVars, queueVars, payVars, procVars, verifierVars, evalVars, policy,
                 policyEdits, spending>>

\* the caller has the answer; the locals of the call are gone
PlanReturn ==
  /\ sut \in {"prover", "planner"} /\ planPc = "done"
  /\ planPc' = "idle"
  /\ paymentPlan' = None
  /\ compliance' = None
  /\ UNCHANGED <<envVars, queueVars, payVars, procVars, verifierVars, evalVars, policy,
                 policyEdits, spending>>

(***************************************************************************)
(* RealPaymentExecutor.executePayment(request).                            *)
(***************************************************************************)
ExecutePayment_Call ==
  /\ sut = "executor" /\ payPc = "idle"
  /\ \E r \in PaymentRequests : request' = r
  /\ payPc' = "called"
  /\ UNCHANGED <<envVars, queueVars, planVars, procVars, verifierVars, evalVars, policy,
                 policyEdits, spending, paymentResult, transactions>>

\* throw new Error('not whitelisted'), caught: success false
ExecutePayment_NotWhitelisted ==
  /\ sut = "executor" /\ payPc = "called"
  /\ ~IsWhitelisted(request.to)
  /\ paymentResult' = PaymentFailure("not_whitelisted")
  /\ payPc' = "done"
  /\ UNCHANGED <<envVars, queueVars, planVars, procVars, verifierVars, evalVars, policy,
                 policyEdits, spending, request, transactions>>

\* getBalance throws, or balance < weiAmount: caught, success false
ExecutePayment_BalanceFails ==
  /\ sut = "executor" /\ payPc = "called"
  /\ IsWhitelisted(request.to)
  /\ \E error \in {"rpc_error"} \cup
                   {"insufficient_balance" : balance \in
                      {b \in Balances : b < weiAmount(request.amount)}} :
       paymentResult' = PaymentFailure(error)
  /\ payPc' = "done"
  /\ UNCHANGED <<envVars, queueVars, planVars, procVars, verifierVars, evalVars, policy,
                 policyEdits, spending, request, transactions>>

ExecutePayment_Funded ==
  /\ sut = "executor" /\ payPc = "called"
  /\ IsWhitelisted(request.to)
  /\ \E balance \in Balances : balance >= weiAmount(request.amount)
  /\ payPc' = "funded"
  /\ UNCHANGED <<envVars, queueVars, planVars, procVars, verifierVars, evalVars, policy,
                 policyEdits, spending, request, paymentResult, transactions>>

\* walletClient.sendTransaction({to: request.to, value: weiAmount, data})
ExecutePayment_Send ==
  /\ sut = "executor" /\ payPc = "funded"
  /\ \E sent \in BOOLEAN :
       IF sent
         THEN /\ transactions' = Append(transactions,
                                        [to |-> request.to,
                                         value |-> weiAmount(request.amount)])
              /\ payPc' = "sent"
              /\ UNCHANGED paymentResult
         ELSE /\ paymentResult' = PaymentFailure("send_failed")
              /\ payPc' = "done"
              /\ UNCHANGED transactions
  /\ UNCHANGED <<envVars, queueVars, planVars, procVars, verifierVars, evalVars, policy,
                 policyEdits, spending, request>>

\* walletClient.waitForTransactionReceipt({ hash })
ExecutePayment_Receipt ==
  /\ sut = "executor" /\ payPc = "sent"
  /\ \E confirmed \in BOOLEAN :
       paymentResult' = IF confirmed THEN PaymentSuccess(Len(transactions))
                        ELSE PaymentFailure("receipt_failed")
  /\ payPc' = "done"
  /\ UNCHANGED <<envVars, queueVars, planVars, procVars, verifierVars, evalVars, policy,
                 policyEdits, spending, request, transactions>>

\* the caller has the PaymentResult; the next call starts with a fresh log
ExecutePayment_Return ==
  /\ sut = "executor" /\ payPc = "done"
  /\ payPc' = "idle"
  /\ request' = None
  /\ paymentResult' = None
  /\ transactions' = <<>>
  /\ UNCHANGED <<envVars, queueVars, planVars, procVars, verifierVars, evalVars, policy,
                 policyEdits, spending>>

(***************************************************************************)
(* processSingleEmail, reprocessMessage, the runs they start and the       *)
(* delayed clean-up of the queue, for one message id.                      *)
(***************************************************************************)
\* if (this.processingQueue.has(messageId)) return await the stored promise
ProcessSingleEmail_Queued ==
  /\ sut = "queueProcessor"
  /\ processingQueue # NoEntry
  /\ lastCall' = [call |-> "processSingleEmail", run |-> processingQueue]
  /\ UNCHANGED <<envVars, payVars, planVars, procVars, verifierVars, evalVars,
                 policy, policyEdits, spending, processingQueue, runs, cleanupTimers>>

\* const processingPromise = this.doProcessSingleEmail(message);
\* this.processingQueue.set(messageId, processingPromise)
ProcessSingleEmail_Start ==
  /\ sut = "queueProcessor"
  /\ processingQueue = NoEntry
  /\ Len(runs) < MaxRuns
  /\ runs' = Append(runs, NewRun)
  /\ processingQueue' = Len(runs) + 1
  /\ lastCall' = [call |-> "processSingleEmail", run |-> Len(runs) + 1]
  /\ UNCHANGED <<envVars, payVars, planVars, procVars, verifierVars, evalVars,
                 policy, policyEdits, spending, cleanupTimers>>

\* this.processingQueue.delete(messageId); return await this.processSingleEmail(message)
ReprocessMessage ==
  /\ sut = "queueProcessor"
  /\ Len(runs) < MaxRuns
  /\ runs' = Append(runs, NewRun)
  /\ processingQueue' = Len(runs) + 1
  /\ lastCall' = [call |-> "reprocessMessage", run |-> Len(runs) + 1]
  /\ UNCHANGED <<envVars, payVars, planVars, procVars, verifierVars, evalVars,
                 policy, policyEdits, spending, cleanupTimers>>

\* messages.find(...) finds no message of that id: throw new Error('Message not found')
ReprocessMessage_NotFound ==
  /\ sut = "queueProcessor"
  /\ lastCall' = [call |-> "reprocessMessage", run |-> NoEntry]
  /\ UNCHANGED <<envVars, payVars, planVars, procVars, verifierVars, evalVars,
                 policy, policyEdits, spending, processingQueue, runs, cleanupTimers>>

\* processInvoiceEmail inside the run reaches blockchainService.executePayment
ProcessInvoiceEmail_Broadcast ==
  /\ sut = "queueProcessor"
  /\ \E r \in DOMAIN runs :
       /\ runs[r].internal = "running" /\ ~runs[r].paid
       /\ runs' = [runs EXCEPT ![r].paid = TRUE]
  /\ UNCHANGED <<envVars, payVars, planVars, procVars, verifierVars, evalVars,
                 policy, policyEdits, spending, processingQueue, cleanupTimers, lastCall>>

\* processEmailInternal resolves; if the race is still pending the run
\* returns its result and the finally of processSingleEmail sets the timer
DoProcessSingleEmail_InternalDone ==
  /\ sut = "queueProcessor"
  /\ \E r \in DOMAIN runs :
       /\ runs[r].internal = "running"
       /\ IF runs[r].returned = "pending"
            THEN /\ runs' = [runs EXCEPT ![r].internal = "done",
                                         ![r].returned = "result"]
                 /\ cleanupTimers' = cleanupTimers + 1
            ELSE /\ runs' = [runs EXCEPT ![r].internal = "done"]
                 /\ UNCHANGED cleanupTimers
  /\ UNCHANGED <<envVars, payVars, planVars, procVars, verifierVars, evalVars,
                 policy, policyEdits, spending, processingQueue, lastCall>>

\* setTimeout(() => reject(new Error('Processing timeout')), maxTime) fires
\* first: the catch block returns the error result; processEmailInternal
\* is not cancelled
DoProcessSingleEmail_Timeout ==
  /\ sut = "queueProcessor"
  /\ \E r \in DOMAIN runs :
       /\ runs[r].internal = "running" /\ runs[r].returned = "pending"
       /\ runs' = [runs EXCEPT ![r].returned = "timeout"]
  /\ cleanupTimers' = cleanupTimers + 1
  /\ UNCHANGED <<envVars, payVars, planVars, procVars, verifierVars, evalVars,
                 policy, policyEdits, spending, processingQueue, lastCall>>

\* setTimeout(() => this.processingQueue.delete(messageId), 60000) fires
QueueCleanup ==
  /\ sut = "queueProcessor"
  /\ cleanupTimers > 0
  /\ cleanupTimers' = cleanupTimers - 1
  /\ processingQueue' = NoEntry
  /\ UNCHANGED <<envVars, payVars, planVars, procVars, verifierVars, evalVars,
                 policy, policyEdits, spending, runs, lastCall>>

Next ==
  \/ AddConditionalRule
  \/ AddCustomRule
  \/ EvaluateWithZkVM_Call
  \/ EvaluateWithZkVM_PreEvaluate
  \/ EvaluateWithZkVM_NoBinary
  \/ EvaluateWithZkVM_Launch
  \/ EvaluateWithZkVM_ProofFails
  \/ EvaluateWithZkVM_ProofExits
  \/ EvaluatePaymentIntent_Call
  \/ EvaluatePaymentIntent_NoBinary
  \/ EvaluatePaymentIntent_Disabled
  \/ EvaluatePaymentIntent_Launch
  \/ EvaluatePaymentIntent_ProofFails
  \/ EvaluatePaymentIntent_ProofExits
  \/ EvaluationReturn
  \/ VerifyProof_Call
  \/ VerifyProof_Mock
  \/ VerifyProof_Error
  \/ VerifyProof_NoKey
  \/ VerifyProof_Launch
  \/ VerifyProof_WorkerFails
  \/ VerifyProof_WorkerExits
  \/ VerifyProof_Return
  \/ ProcessMessage_Call
  \/ ProcessMessage_Blocked
  \/ ProcessMessage_Analyze
  \/ ProcessMessage_Other
  \/ ProcessInvoice_NoIntent
  \/ ProcessInvoice_Evaluate
  \/ ProcessInvoice_Settle
  \/ ProcessSchedule
  \/ ProcessSingleEmail_Call
  \/ ProcessEmailInternal_NotProcessed
  \/ ProcessEmailInternal_Classify
  \/ ProcessEmailInternal_NoAction
  \/ ProcessScheduleEmail
  \/ ProcessInvoiceEmail_ExtractionFailed
  \/ ProcessInvoiceEmail_Evaluate
  \/ ProcessInvoiceEmail_ManualApproval
  \/ ProcessInvoiceEmail_Rejected
  \/ ProcessInvoiceEmail_ExecutePayment
  \/ ProcessInvoiceEmail_PaymentDone
  \/ ProcessingReturn
  \/ GeneratePaymentProof_Call
  \/ GeneratePaymentProof_NoCircuit
  \/ GeneratePaymentProof_Error
  \/ GeneratePaymentProof_Proved
  \/ CheckRuleCompliance
  \/ PlanReturn
  \/ ExecutePayment_Call
  \/ ExecutePayment_NotWhitelisted
  \/ ExecutePayment_BalanceFails
  \/ ExecutePayment_Funded
  \/ ExecutePayment_Send
  \/ ExecutePayment_Receipt
  \/ ExecutePayment_Return
  \/ ProcessSingleEmail_Queued
  \/ ProcessSingleEmail_Start
  \/ ReprocessMessage
  \/ ReprocessMessage_NotFound
  \/ ProcessInvoiceEmail_Broadcast
  \/ DoProcessSingleEmail_InternalDone
  \/ DoProcessSingleEmail_Timeout
  \/ QueueCleanup

Spec == Init /\ [][Next]_vars

(***************************************************************************)
(* The evaluation entry points under the scheduling of the runtime: the    *)
(* synchronous steps of a call run on, and the timer of execAsync          *)
(* ({ timeout: 60000 }, { timeout: this.config.timeout }) fires while the  *)
(* proof process is still running.  Nothing makes the proof process end,   *)
(* and nothing makes a caller call.                                        *)
(***************************************************************************)
LiveInit == Init /\ sut \in {"integrated", "engine"}

LiveNext ==
  \/ EvaluateWithZkVM_Call
  \/ EvaluateWithZkVM_PreEvaluate
  \/ EvaluateWithZkVM_NoBinary
  \/ EvaluateWithZkVM_Launch
  \/ EvaluateWithZkVM_ProofFails
  \/ EvaluateWithZkVM_ProofExits
  \/ EvaluatePaymentIntent_Call
  \/ EvaluatePaymentIntent_NoBinary
  \/ EvaluatePaymentIntent_Disabled
  \/ EvaluatePaymentIntent_Launch
  \/ EvaluatePaymentIntent_ProofFails
  \/ EvaluatePaymentIntent_ProofExits
  \/ EvaluationReturn

\* the timer of execAsync ends the wait for the proof process
ProofTimesOut ==
  /\ EvaluateWithZkVM_ProofFails \/ EvaluatePaymentIntent_ProofFails
  /\ execOutcome'.kind = "timeout"

\* the steps of a call that do not wait for anything outside the runtime
SynchronousStep ==
  \/ EvaluateWithZkVM_PreEvaluate
  \/ EvaluateWithZkVM_NoBinary
  \/ EvaluateWithZkVM_Launch
  \/ EvaluatePaymentIntent_NoBinary
  \/ EvaluatePaymentIntent_Disabled
  \/ EvaluatePaymentIntent_Launch

LiveSpec ==
  LiveInit /\ [][LiveNext]_vars /\ WF_vars(SynchronousStep) /\ WF_vars(ProofTimesOut)

(***************************************************************************)
(* Properties.                                                             *)
(***************************************************************************)
Returned == (UsesIntegratedSystem \/ sut = "engine") /\ pc = "returned"

\* what the manual evaluator of the object alone returns for the inputs of
\* the evaluation in progress
ManualDecision ==
  IF UsesIntegratedSystem THEN evaluateCustomRules(intent, policy)
  ELSE evaluateManually(intent, policy, spending.currentSpending,
                        spending.weeklySpending)

ProofUnavailable == execOutcome.kind \in ExecFailures \cup {"binary_missing"}

ProofRan == execOutcome.kind = "exited"

\* C1: when the proof backend is unavailable (binary missing, process error,
\* non-zero exit, timeout) the returned Decision has approved equal to what
\* the manual evaluator alone returns for the same intent and policy.
FailClosedOnUnavailable ==
  (Returned /\ ProofUnavailable) =>
     /\ evaluation.approved = ManualDecision.approved
     /\ evaluation.proofGenerated = FALSE

\* an evaluation whose proof process timed out returned the approval the
\* manual evaluator grants
UnavailableApprovedReached ==
  /\ Returned /\ execOutcome.kind = "timeout"
  /\ ManualDecision.approved
  /\ evaluation.approved

\* C2: where the proof backend ran, the returned approved is true only if
\* the manual evaluation of the same intent and policy approved and the
\* proof result approved.
BothMustApprove ==
  (Returned /\ ProofRan /\ evaluation.approved) =>
     (ManualDecision.approved /\ zkVMResult.approved)

\* no line of stdout carries an approval result
NoApprovalResult(stdout) ==
  \A k \in 1..Len(stdout) :
     stdout[k].tag \notin {"Approved: true", "Approved: false"}

\* C3: when the proof process terminates with output that has no
\* recognizable approval result, the adapter yields the unavailable outcome
\* (proof not generated) and no proof result with approved = true.
NoFabricatedApproval ==
  (Returned /\ ProofRan /\ NoApprovalResult(execOutcome.stdout)) =>
     /\ evaluation.proofGenerated = FALSE
     /\ zkVMResult = None \/ ~zkVMResult.approved

\* the worker verified the proof against the verification key
VerificationSucceeded ==
  /\ workerOutcome # None
  /\ workerOutcome.kind = "exited"
  /\ workerOutcome.line.json /\ workerOutcome.line.success
  /\ workerOutcome.line.isValid

\* C4: a proof is treated as valid only when verification against the
\* verification key succeeded; a mock or error artifact, a missing key, a
\* worker error or timeout give an invalid proof whatever the artifact says.
ValidOnlyIfVerified ==
  (verifyPc = "returned" /\ verifyResult = TRUE) => VerificationSucceeded

\* C8: every Decision returned by any evaluation path has riskScore in 0..100.
RiskScoreInRange ==
  Returned => evaluation.riskScore \in 0..100

\* the vendor of the intent under evaluation is on both lists of the policy
VendorOnBothLists ==
  /\ sut = "integrated" /\ intent # None
  /\ Includes(policy.allowedVendors, intent.vendor)
  /\ Includes(policy.blockedVendors, intent.vendor)

RecognizedConditionsOnly ==
  (sut = "integrated" /\ pc # "idle") =>
     \A k \in 1..Len(policy.conditionalRules) :
        policy.conditionalRules[k].condition \in SafeConditions

\* JavaScript reads a missing requiresManualApproval as undefined (falsy)
ReqApproval(decision) ==
  IF "requiresManualApproval" \in DOMAIN decision
    THEN decision.requiresManualApproval ELSE FALSE

\* the Decision the processor holds for the invoice of the message
InvoiceDecision == IF sut = "integratedProcessor" THEN evaluation ELSE policyResult

\* the amount of the invoice of the message
InvoiceAmount ==
  IF sut = "integratedProcessor" THEN message.amount ELSE message.extractedData.amount

\* C5: in a run of invoice processing the payment executor is invoked only
\* after the policy evaluation of that invoice returned approved = true and
\* did not require manual approval.
PaymentGated ==
  \A k \in 1..Len(payments) :
     /\ InvoiceDecision # None
     /\ InvoiceDecision.approved
     /\ ~ReqApproval(InvoiceDecision)
     /\ payments[k].amount = InvoiceAmount

\* an approved invoice was paid by processInvoiceEmail
ApprovedInvoicePaid ==
  /\ sut = "policyProcessor" /\ procPc = "done"
  /\ Len(payments) = 1
  /\ policyResult.approved /\ ~policyResult.requiresManualApproval
  /\ result.action = "payment_completed"

\* C6: a calendar event is created for a schedule email only after a policy
\* evaluation of that schedule approved it.
BookingGated ==
  calendarEvents # <<>> =>
     \E decision \in {evaluation, policyResult} :
        decision # None /\ decision.approved

ViolationCount(decision) ==
  IF "violations" \in DOMAIN decision THEN Len(decision.violations)
  ELSE decision.violationCount

\* the Decisions of manual evaluation held in the state: preEvaluation, the
\* Decision returned when the proof backend was unavailable or disabled,
\* and policyResult
ManualDecisionsHeld ==
  {d \in {preEvaluation, policyResult} : d # None}
    \cup (IF evaluation # None /\ ~evaluation.proofGenerated THEN {evaluation} ELSE {})

\* C7: every Decision returned by manual evaluation has approved = true
\* exactly when it has no violations and requiresManualApproval is false.
ApprovedIffCleanAndUnattended ==
  \A d \in ManualDecisionsHeld :
     d.approved <=> (ViolationCount(d) = 0 /\ ~ReqApproval(d))

\* a manual evaluation found no violation and yet did not approve, because
\* manual approval is required
CleanButUnapprovedReached ==
  /\ policyResult # None
  /\ Len(policyResult.violations) = 0
  /\ policyResult.requiresManualApproval
  /\ ~policyResult.approved

\* C11: a policy edit (addCustomRule, addConditionalRule) leaves the policy
\* object passed in unchanged: its category rules and conditional rules are
\* the same after the call as before.
PolicyEditsCopyOnWrite ==
  [][policyEdits' # policyEdits => policy' = policy]_vars

\* what the entry point hands to its caller is a Decision
IsDecision(returned) ==
  {"approved", "riskScore", "proofGenerated"} \subseteq DOMAIN returned

\* C12: given a valid intent and policy the evaluation entry point never
\* raises: whatever the proof backend did (missing binary, timeout, process
\* crash, unparseable output), the call ends by returning a Decision.
DecisionAlwaysReturned ==
  execOutcome # None => (pc = "returned" /\ IsDecision(evaluation))

\* the proof process of the engine crashed and the caller got a Decision
CrashAnsweredWithDecision ==
  /\ sut = "engine" /\ pc = "returned"
  /\ execOutcome.kind = "process_error"
  /\ IsDecision(evaluation) /\ ~evaluation.proofGenerated

SpendingContexts == IF sut = "engine" THEN {spending} ELSE Spendings

BreachesCumulativeLimit(i, p, sp) ==
  \/ sp.currentSpending + i.amount > p.maxPerDay
  \/ sp.weeklySpending + i.amount > p.maxPerWeek

\* C14: for every intent, policy and spending context, an intent with
\* spentToday + amount > maxPerDay or spentThisWeek + amount > maxPerWeek
\* gets a violation from manual evaluation and is never approved.
CumulativeLimitsEnforced ==
  ((UsesIntegratedSystem \/ sut = "engine") /\ intent # None) =>
     \A sp \in SpendingContexts :
        BreachesCumulativeLimit(intent, policy, sp) =>
           (~ManualDecision.approved /\ ManualDecision.violationCount > 0)

OutsideAllowedHours(i, p) ==
  getHours(i.timestamp) < p.allowedHoursStart \/ getHours(i.timestamp) >= p.allowedHoursEnd

OnDisallowedWeekday(i, p) == ~Includes(p.allowedWeekdays, getDay(i.timestamp))

\* C15: for an intent whose weekday is not in allowedWeekdays, manual
\* evaluation records a weekday violation with riskScore += 10 next to the
\* time-window violation (riskScore += 15), so Saturday 22:00 under a
\* Mon-Fri 9-18 policy has at least two violations, riskScore at least 25
\* and approved = false.
WeekdayViolationRecorded ==
  ((UsesIntegratedSystem \/ sut = "engine") /\ intent # None
     /\ OnDisallowedWeekday(intent, policy)) =>
       /\ ~ManualDecision.approved
       /\ ManualDecision.violationCount >=
            1 + (IF OutsideAllowedHours(intent, policy) THEN 1 ELSE 0)
       /\ ManualDecision.riskScore >=
            10 + (IF OutsideAllowedHours(intent, policy) THEN 15 ELSE 0)

\* the hour of the plan lies outside the half-open window [start, end)
PlanOutsideHalfOpenWindow ==
  \/ getHours(paymentPlan.timestamp) < config.userRules.allowedTimeStart
  \/ getHours(paymentPlan.timestamp) >= config.userRules.allowedTimeEnd

\* C16: the allowed-hours window is half-open in every manual evaluator: an
\* hour h passes exactly when allowedHourStart <= h < allowedHourEnd, so
\* h = allowedHourEnd and h < allowedHourStart are violations, in the custom
\* rules of the integrated system, the manual evaluation of the engine, the
\* manual validation of the prover and the compliance check of the planner
HalfOpenHoursInEveryEvaluator ==
  /\ ((UsesIntegratedSystem \/ sut = "engine") /\ intent # None
        /\ OutsideAllowedHours(intent, policy))
       => ~ManualDecision.approved
  /\ (sut = "prover" /\ planPc = "done" /\ compliance.proof.kind # "groth16"
        /\ PlanOutsideHalfOpenWindow)
       => ~compliance.isValid
  /\ (sut = "planner" /\ planPc = "done" /\ PlanOutsideHalfOpenWindow)
       => (~compliance.isCompliant
             /\ Includes(compliance.violations, "time_restriction"))

\* the Decision carries requiresManualApproval and it is true
RequiresManualApproval(decision) ==
  "requiresManualApproval" \in DOMAIN decision /\ decision.requiresManualApproval

\* the category rule of the intent's category asks for approval
CategoryRequiresApproval(i, p) ==
  i.category \in DOMAIN p.customRules /\ p.customRules[i.category].requireApproval

\* C17: when the category rule for the intent's category has requireApproval
\* true, the evaluation of the custom rules is not approved and has
\* requiresManualApproval true, even if the amount is under every cap
CategoryApprovalHonoured ==
  (UsesIntegratedSystem /\ intent # None /\ CategoryRequiresApproval(intent, policy))
    => (~evaluateCustomRules(intent, policy).approved
          /\ RequiresManualApproval(evaluateCustomRules(intent, policy)))

WithoutConditionalRules(p) == [p EXCEPT !.conditionalRules = <<>>]

\* the conditional rules of p with the given action whose condition i meets
MatchingRules(i, p, action) ==
  {k \in DOMAIN p.conditionalRules :
     /\ p.conditionalRules[k].action = action
     /\ evaluateCondition(p.conditionalRules[k].condition, i, p)}

\* C18: a matching conditional rule with action require_approval adds no
\* entry to violations and leaves riskScore unchanged; only a matching rule
\* with action reject adds a violation, with riskScore += 30
OnlyRejectRulesAddViolations ==
  (UsesIntegratedSystem /\ intent # None) =>
    LET decision == evaluateCustomRules(intent, policy)
        base == evaluateCustomRules(intent, WithoutConditionalRules(policy))
        rejects == Cardinality(MatchingRules(intent, policy, "reject"))
    IN /\ decision.violationCount = base.violationCount + rejects
       /\ decision.riskScore = MathMin(base.riskScore + 30 * rejects, 100)

\* the intent breaks none of the limits other than the allow list
OtherwiseCompliant(i, p, sp) ==
  /\ i.amount <= p.maxPerPayment
  /\ ~BreachesCumulativeLimit(i, p, sp)
  /\ ~OutsideAllowedHours(i, p)
  /\ ~OnDisallowedWeekday(i, p)

\* C19: an empty allow list imposes no restriction: the allow-list
\* violation is raised only when the allow list is non-empty and does not
\* contain the vendor, and with an empty allow list, as in the default
\* policy of the engine, an otherwise compliant intent is approved
EmptyAllowListUnrestricted ==
  /\ (UsesIntegratedSystem /\ intent # None) =>
       \A k \in DOMAIN evaluateCustomRules(intent, policy).violations :
          evaluateCustomRules(intent, policy).violations[k].kind = "vendor_not_allowed"
            => (Len(policy.allowedVendors) > 0
                  /\ ~Includes(policy.allowedVendors, intent.vendor))
  /\ (sut = "engine" /\ intent # None /\ Len(policy.allowedVendors) = 0
        /\ OtherwiseCompliant(intent, policy, spending))
       => evaluateManually(intent, policy, spending.currentSpending,
                           spending.weeklySpending).approved

\* the policy with its per-payment limit raised above the amount of the intent
RaisedLimit(p, i) == [p EXCEPT !.maxPerPayment = i.amount + 1]

\* manual evaluation of the intent in progress under policy p, by the
\* evaluator of the constructed object
ManualDecisionUnder(p) ==
  IF UsesIntegratedSystem THEN evaluateCustomRules(intent, p)
  ELSE evaluateManually(intent, p, spending.currentSpending, spending.weeklySpending)

\* C20: an intent with amount == maxPerPayment never gets a per-payment
\* amount violation, and an intent with amount == maxPerPayment + 1 always
\* gets one, with riskScore += 30, and is not approved; in the custom rules
\* of the integrated system, the manual evaluation of the engine and the
\* amount limits of the payment policy evaluator
AmountBoundaryExact ==
  /\ ((UsesIntegratedSystem \/ sut = "engine") /\ intent # None) =>
       \A d \in ManualDecisionsHeld :
          LET free == ManualDecisionUnder(RaisedLimit(policy, intent))
          IN /\ intent.amount = policy.maxPerPayment =>
                  /\ d.violationCount = free.violationCount
                  /\ d.riskScore = free.riskScore
             /\ intent.amount = policy.maxPerPayment + 1 =>
                  /\ d.violationCount = free.violationCount + 1
                  /\ d.riskScore = MathMin(free.riskScore + 30, 100)
                  /\ ~d.approved
  /\ (sut = "policyProcessor" /\ policyResult # None) =>
       /\ InvoiceAmount = config.paymentPolicy.maxPerPayment =>
            ~Includes(policyResult.violations, "per_payment_limit")
       /\ InvoiceAmount = config.paymentPolicy.maxPerPayment + 1 =>
            /\ Includes(policyResult.violations, "per_payment_limit")
            /\ policyResult.riskScore >= 30
            /\ ~policyResult.approved

\* an intent of exactly the per-payment limit came back approved from manual
\* evaluation
AtLimitIntentApproved ==
  /\ sut = "integrated" /\ pc = "returned"
  /\ intent.amount = policy.maxPerPayment
  /\ ~evaluation.proofGenerated
  /\ evaluation.approved
  /\ evaluation.violationCount = 0

\* the checks of evaluateCustomRules that intent i violates under policy p,
\* read off the inputs
CustomRuleChecksViolated(i, p) ==
  (IF i.amount > p.maxPerPayment THEN {<<"amount", 0>>} ELSE {})
    \cup (IF Len(p.allowedVendors) > 0 /\ ~Includes(p.allowedVendors, i.vendor)
            THEN {<<"allowed", 0>>} ELSE {})
    \cup (IF Includes(p.blockedVendors, i.vendor) THEN {<<"blocked", 0>>} ELSE {})
    \cup (IF OutsideAllowedHours(i, p) THEN {<<"hours", 0>>} ELSE {})
    \cup (IF /\ i.category \in DOMAIN p.customRules
             /\ p.customRules[i.category].maxAmount # 0
             /\ i.amount > p.customRules[i.category].maxAmount
            THEN {<<"category", 0>>} ELSE {})
    \cup {<<"reject", k>> : k \in MatchingRules(i, p, "reject")}
    \cup {<<"require_approval", k>> : k \in MatchingRules(i, p, "require_approval")}

\* the checks of evaluateManually that intent i violates under policy p
ManualChecksViolated(i, p, sp) ==
  (IF i.amount > p.maxPerPayment THEN {"amount"} ELSE {})
    \cup (IF sp.currentSpending + i.amount > p.maxPerDay THEN {"daily"} ELSE {})
    \cup (IF sp.weeklySpending + i.amount > p.maxPerWeek THEN {"weekly"} ELSE {})
    \cup (IF ~Includes(p.allowedVendors, i.vendor) THEN {"allowed"} ELSE {})
    \cup (IF OutsideAllowedHours(i, p) THEN {"hours"} ELSE {})
    \cup (IF OnDisallowedWeekday(i, p) THEN {"weekday"} ELSE {})

\* the policies reached from p by one more conditional rule
WithOneMoreRule(p) ==
  {addConditionalRule(p, c, a) : c \in ConditionInputs, a \in RuleActions}

\* decision worse is no better than decision better
NoBetterThan(worse, better) ==
  /\ better.riskScore <= worse.riskScore
  /\ worse.approved => better.approved

\* C21: risk is monotonic under violation: an intent (or policy) that violates
\* every check another one violates, and more, never has a lower riskScore
\* and is never approved where the other one is rejected, in the custom
\* rules of the integrated system and the manual evaluation of the engine
MonotonicRisk ==
  /\ (sut = "integrated" /\ pc = "start") =>
       /\ \A j \in Intents :
            CustomRuleChecksViolated(intent, policy) \subseteq
                CustomRuleChecksViolated(j, policy)
              => NoBetterThan(evaluateCustomRules(j, policy),
                              evaluateCustomRules(intent, policy))
       /\ \A p2 \in WithOneMoreRule(policy) :
            NoBetterThan(evaluateCustomRules(intent, p2),
                         evaluateCustomRules(intent, policy))
  /\ (sut = "engine" /\ pc = "start") =>
       \A j \in EngineIntents, sp \in Spendings :
          ManualChecksViolated(intent, policy, spending) \subseteq
              ManualChecksViolated(j, policy, sp)
            => NoBetterThan(evaluateManually(j, policy, sp.currentSpending,
                                             sp.weeklySpending),
                            evaluateManually(intent, policy, spending.currentSpending,
                                             spending.weeklySpending))

\* an evaluation started for an intent that passes while another intent
\* violates one check more and is rejected with a higher riskScore
PassingIntentHasWorseNeighbour ==
  /\ sut = "integrated" /\ pc = "start"
  /\ evaluateCustomRules(intent, policy).approved
  /\ \E j \in Intents :
       /\ Cardinality(CustomRuleChecksViolated(j, policy)) = 1
       /\ ~evaluateCustomRules(j, policy).approved
       /\ evaluateCustomRules(j, policy).riskScore
            > evaluateCustomRules(intent, policy).riskScore

\* C22: every PaymentIntent produced from an AI extraction result has
\* amount >= 0, and an extraction with a negative amount yields no intent
IntentAmountValidated ==
  /\ (UsesIntegratedSystem /\ intent # None) => intent.amount >= 0
  /\ (sut = "integratedProcessor" /\ procPc \in {"evaluating", "done"}
        /\ message # None /\ message.type = "INVOICE" /\ message.amount < 0)
       => intent = None

\* C23: executePayment sends a transaction only to a destination on the
\* whitelist of the executor; for any other destination it returns success
\* false and no transaction is sent
WhitelistOnlyPayments ==
  /\ \A k \in DOMAIN transactions :
       Includes(whitelistedAddresses, transactions[k].to)
  /\ (sut = "executor" /\ payPc = "done"
        /\ ~Includes(whitelistedAddresses, request.to))
       => (~paymentResult.success /\ transactions = <<>>)

\* a request for a destination off the whitelist came back refused while a
\* transfer to it would have been funded
StrangerRefused ==
  /\ sut = "executor" /\ payPc = "done"
  /\ request.to = "0x000000000000000000000000000000000000dead"
  /\ ~paymentResult.success
  /\ paymentResult.error = "not_whitelisted"
  /\ transactions = <<>>

\* the vendor checks of evaluateCustomRules on their own
VendorListChecks(i, p) ==
  BlockedVendorCheck(
    AllowedVendorCheck([violations |-> <<>>, appliedRules |-> <<>>, riskScore |-> 0],
                       i, p),
    i, p)

\* C24: when the vendor is on the block list, the list checks record exactly
\* one violation and add exactly 50 to riskScore, whether or not the vendor
\* is also missing from a non-empty allow list
BlockListHitExclusive ==
  (UsesIntegratedSystem /\ intent # None /\ Includes(policy.blockedVendors, intent.vendor))
    => /\ Len(VendorListChecks(intent, policy).violations) = 1
       /\ VendorListChecks(intent, policy).riskScore = 50

\* mask has bit i set exactly for the weekdays i of 0..6 in the list, and
\* no other bit
MaskEncodes(mask, weekdays) ==
  /\ mask \in 0..127
  /\ \A i \in 0..6 : BitSet(mask, i) <=> Includes(weekdays, i)

\* C25: for every allowedWeekdays list, the mask passed to the proof
\* backend has bit i set iff weekday i (0..6) is in the list and has no
\* other bit set, in both adapters
WeekdayMaskExact ==
  /\ (UsesIntegratedSystem /\ pc = "proving") =>
       MaskEncodes(createWeekdayMask(policy.allowedWeekdays), policy.allowedWeekdays)
  /\ (sut = "engine" /\ pc = "proving") =>
       MaskEncodes(weekdayMask(policy.allowedWeekdays), policy.allowedWeekdays)

\* the step sequences of a call in the single-pass order
SinglePassTraces ==
  {<<"Start", "ManualEvaluated", "ProofAttempted", "ProofSucceeded", "Composed", "Returned">>,
   <<"Start", "ManualEvaluated", "ProofAttempted", "ProofUnavailable", "Composed", "Returned">>,
   <<"Start", "ManualEvaluated", "ProofUnavailable", "Composed", "Returned">>}

\* C26: every evaluation call follows the order Start -> ManualEvaluated ->
\* (ProofAttempted -> ProofSucceeded | ProofUnavailable) -> Composed ->
\* Returned: the manual evaluation is computed before any proof attempt and
\* the proof process is launched at most once per call
SinglePassOrder ==
  /\ \A k \in DOMAIN trace :
       trace[k] = "ProofAttempted" =>
         \E j \in 1..(k - 1) : trace[j] = "ManualEvaluated"
  /\ Cardinality({k \in DOMAIN trace : trace[k] = "ProofAttempted"}) <= 1
  /\ ((UsesIntegratedSystem \/ sut = "engine") /\ pc = "returned")
       => trace \in SinglePassTraces

\* C27: processInvoice returns a ProcessingResult with action
\* 'payment_executed' only when the payment system is enabled and a payment
\* was handed to the executor; an approved Decision with payments disabled
\* is not reported as 'payment_executed'
PaymentExecutedMeansPaid ==
  (sut = "integratedProcessor" /\ procPc = "done" /\ result.action = "payment_executed")
    => (config.paymentEnabled /\ Len(payments) = 1)

\* the case of C27 does not arise: the policy createUserPolicy builds keeps
\* the default rule 'vendor not in allowedVendors' next to an empty
\* allowedVendors, so no Decision of the processor is approved and no
\* result carries 'payment_executed'
NoInvoiceApprovedByProcessor ==
  sut = "integratedProcessor" =>
    /\ evaluation # None => ~evaluation.approved
    /\ result # None => result.action # "payment_executed"
    /\ payments = <<>>

\* C28: the policy EmailProcessor evaluates invoices against carries the
\* configured user policy: maxPerPayment, maxPerDay, maxPerWeek,
\* allowedVendors, the allowed hours and allowedWeekdays equal the values of
\* config.userPolicy
UserPolicyLimitsCarried ==
  (sut = "integratedProcessor" /\ policy # None) =>
    /\ policy.maxPerPayment = config.userPolicy.maxPerPayment
    /\ policy.maxPerDay = config.userPolicy.maxPerDay
    /\ policy.maxPerWeek = config.userPolicy.maxPerWeek
    /\ policy.allowedVendors = config.userPolicy.allowedVendors
    /\ policy.allowedHoursStart = config.userPolicy.allowedHours.start
    /\ policy.allowedHoursEnd = config.userPolicy.allowedHours.end
    /\ policy.allowedWeekdays = config.userPolicy.allowedWeekdays

\* the runs of doProcessSingleEmail that have not returned yet
RunsInFlight == {r \in DOMAIN runs : runs[r].returned = "pending"}

\* C29: under any interleaving of processSingleEmail, reprocessMessage and
\* the delayed clean-up of the queue, at most one processing run for a
\* message id is in flight at a time
NoDuplicateInFlight == Cardinality(RunsInFlight) <= 1

\* C30: if a run returned the error result caused by 'Processing timeout',
\* that run broadcasts no payment, either before or after the result is
\* returned
TimeoutIsFinal ==
  \A r \in DOMAIN runs : runs[r].returned = "timeout" => ~runs[r].paid

====
